---------------------------- MODULE Spec2Model ----------------------------
(***************************************************************************)
(* Invoice totals and share-token engine of the on-the-fly invoice         *)
(* feature: InvoiceRepository (repositories/invoice_repo.py) and the       *)
(* public share routes (api/public_invoice.py).                            *)
(*                                                                         *)
(* Money.  Every Decimal amount is an integer number of millionths of a    *)
(* currency unit, so that a price in cents, a whole percentage of it and   *)
(* the tax on the result are all exact, as they are in Python's Decimal    *)
(* arithmetic (28 significant digits).  The scale of the Numeric columns   *)
(* is a concern of the database schema and is not modelled.                *)
(*                                                                         *)
(* Nullable values.  None is the empty sequence and a present value v is   *)
(* the one-element sequence <<v>>.                                         *)
(*                                                                         *)
(* Store.  invoices, items and customers are the committed rows of the     *)
(* tables invoice_new, invoice_new_item and customer in insertion order;   *)
(* a row's position is its integer primary key.  A call that raises        *)
(* before commit leaves them untouched: the session is closed without a    *)
(* commit (database.py, get_db).                                           *)
(***************************************************************************)
EXTENDS Integers, Sequences, FiniteSets, TLC

VARIABLES
    invoices,    \* committed rows of invoice_new
    items,       \* committed rows of invoice_new_item
    customers,   \* committed rows of customer
    templates,   \* rows of invoice_template (read only)
    now,         \* datetime.now(timezone.utc), in days
    call,        \* the arguments the calculation specification creates with
    last,        \* the last finished call: operation, arguments, outcome
    sessions     \* the database session of every caller of create_on_the_fly

vars == <<invoices, items, customers, templates, now, call, last, sessions>>

store == <<invoices, items, customers>>

-----------------------------------------------------------------------------
(* Values *)

None == << >>

Some(v) == <<v>>

\* Python truthiness of an Optional[Decimal] / Optional[int]
TruthyNum(x) == x # None /\ x[1] # 0

\* Python truthiness of an Optional[str]
TruthyStr(x) == x # None /\ x[1] # ""

\* whole currency units and cents, in millionths
RM(n) == n * 1000000

Cents(n) == n * 10000

\* x * (p / Decimal(100)); exact for every amount that is a multiple of 100
Percent(x, p) == (x \div 100) * p

RECURSIVE SumSeq(_)
SumSeq(s) == IF s = << >> THEN 0 ELSE Head(s) + SumSeq(Tail(s))

Abs(x) == IF x < 0 THEN -x ELSE x

\* the first row of a query (.first()), None when there is none
First(s) == IF s = << >> THEN None ELSE Some(Head(s))

-----------------------------------------------------------------------------
(* Settings: config.py, InvoiceSettings *)

INVOICE_NUMBER_PREFIX == "INV"

INVOICE_NUMBER_LENGTH == 6

DEFAULT_SST_RATE == 8

SHARE_LINK_EXPIRY_DAYS == 7

-----------------------------------------------------------------------------
(* Reference data: the package and voucher tables, which the engine only   *)
(* reads.                                                                  *)

Packages ==
    <<[bubble_id |-> "pkgA", name |-> Some("Solar A"), price |-> Some(RM(1000)),
       invoice_desc |-> Some("Solar A, 10 panels")],
      [bubble_id |-> "pkgB", name |-> Some("Solar B"), price |-> Some(Cents(99999)),
       invoice_desc |-> None],
      [bubble_id |-> "pkgN", name |-> None, price |-> None,
       invoice_desc |-> None]>>

Vouchers ==
    <<[voucher_code |-> "FLAT", discount_amount |-> Some(RM(100)),
       discount_percent |-> None, active |-> TRUE],
      [voucher_code |-> "PCT", discount_amount |-> None,
       discount_percent |-> Some(5), active |-> TRUE],
      [voucher_code |-> "BOTH", discount_amount |-> Some(RM(100)),
       discount_percent |-> Some(5), active |-> TRUE],
      [voucher_code |-> "ZEROFLAT", discount_amount |-> Some(0),
       discount_percent |-> Some(5), active |-> TRUE],
      [voucher_code |-> "OFF", discount_amount |-> Some(RM(100)),
       discount_percent |-> None, active |-> FALSE],
      [voucher_code |-> "BIG", discount_amount |-> Some(RM(1100)),
       discount_percent |-> None, active |-> TRUE]>>

Template(id, sst, dflt) ==
    [bubble_id |-> id, apply_sst |-> sst, active |-> TRUE, is_default |-> dflt]

\* the template tables considered: the default template allows tax, the
\* default template forbids tax, there is no default template
TemplateTables ==
    { <<Template("tplTax", TRUE, TRUE), Template("tplNoTax", FALSE, FALSE)>>,
      <<Template("tplTax", TRUE, FALSE), Template("tplNoTax", FALSE, TRUE)>>,
      <<Template("tplTax", TRUE, FALSE), Template("tplNoTax", FALSE, FALSE)>> }

-----------------------------------------------------------------------------
(* Invoice numbers.  A number is PREFIX + "-" + digits; the model keeps    *)
(* the prefix and the digit string (a sequence of digits 0..9).            *)

\* str(n) for n >= 0
RECURSIVE NumToDigits(_)
NumToDigits(n) ==
    IF n < 10 THEN <<n>> ELSE NumToDigits(n \div 10) \o <<n % 10>>

\* int(s) for a string of digits
RECURSIVE DigitsToNum(_)
DigitsToNum(d) ==
    IF d = << >> THEN 0
    ELSE DigitsToNum(SubSeq(d, 1, Len(d) - 1)) * 10 + d[Len(d)]

\* str.zfill(width)
RECURSIVE ZFill(_, _)
ZFill(d, width) == IF Len(d) >= width THEN d ELSE ZFill(<<0>> \o d, width)

\* a < b for two strings, character by character
RECURSIVE StrLess(_, _)
StrLess(a, b) ==
    IF b = << >> THEN FALSE
    ELSE IF a = << >> THEN TRUE
    ELSE IF Head(a) # Head(b) THEN Head(a) < Head(b)
    ELSE StrLess(Tail(a), Tail(b))

\* the number without str.zfill
FormatInvoiceNumberUnpadded(n) ==
    [prefix |-> INVOICE_NUMBER_PREFIX, digits |-> NumToDigits(n)]

\* f"{PREFIX}-{str(next_num).zfill(LENGTH)}"
FormatInvoiceNumber(n) ==
    [prefix |-> INVOICE_NUMBER_PREFIX,
     digits |-> ZFill(NumToDigits(n), INVOICE_NUMBER_LENGTH)]

\* query(InvoiceNew).order_by(InvoiceNew.invoice_number.desc()).first()
LastInvoice(invs) ==
    IF invs = << >> THEN None
    ELSE LET i == CHOOSE i \in 1..Len(invs) :
                    \A j \in 1..Len(invs) :
                        j = i \/ StrLess(invs[j].invoice_number.digits,
                                         invs[i].invoice_number.digits)
         IN  Some(invs[i])

\* InvoiceRepository._generate_invoice_number
GenerateInvoiceNumber(invs) ==
    LET last_invoice == LastInvoice(invs)
        next_num == IF last_invoice # None
                    THEN DigitsToNum(last_invoice[1].invoice_number.digits) + 1
                    ELSE 1
    IN  FormatInvoiceNumber(next_num)

-----------------------------------------------------------------------------
(* Queries *)

\* query(Package).filter(Package.bubble_id == package_id).first()
FindPackage(package_id) ==
    First(SelectSeq(Packages, LAMBDA p : p.bubble_id = package_id))

\* query(Customer).filter(Customer.name == customer_name).first()
FindCustomer(custs, customer_name) ==
    First(SelectSeq(custs, LAMBDA c : Some(c.name) = customer_name))

\* FindVoucher without the filter on active
FindVoucherIgnoringActive(voucher_code) ==
    First(SelectSeq(Vouchers, LAMBDA v : Some(v.voucher_code) = voucher_code))

\* query(Voucher).filter(voucher_code == code, active == True).first()
FindVoucher(voucher_code) ==
    First(SelectSeq(Vouchers,
                    LAMBDA v : Some(v.voucher_code) = voucher_code /\ v.active))

\* query(InvoiceTemplate).filter(is_default == True, active == True).first()
DefaultTemplate(tpls) ==
    First(SelectSeq(tpls, LAMBDA t : t.is_default /\ t.active))

\* query(InvoiceTemplate).filter(bubble_id == template_id).first()
FindTemplate(tpls, template_id) ==
    First(SelectSeq(tpls, LAMBDA t : Some(t.bubble_id) = template_id))

\* query(InvoiceNew).filter(InvoiceNew.bubble_id == bubble_id).first()
GetById(invs, bubble_id) ==
    First(SelectSeq(invs, LAMBDA i : i.bubble_id = bubble_id))

\* query(InvoiceNew).filter(InvoiceNew.share_token == share_token).first()
FindByToken(invs, share_token) ==
    First(SelectSeq(invs, LAMBDA i : i.share_token = Some(share_token)))

\* the rows of invoice_new_item of one invoice (invoice.items)
ItemsOf(its, bubble_id) == SelectSeq(its, LAMBDA it : it.invoice_id = bubble_id)

-----------------------------------------------------------------------------
(* create_on_the_fly, step by step *)

\* step 3: the voucher amount; the percentage of a package without a price
\* is None * Decimal, a TypeError
VoucherRaises(args, package) ==
    /\ TruthyStr(args.voucher_code)
    /\ FindVoucher(args.voucher_code) # None
    /\ LET voucher == FindVoucher(args.voucher_code)[1]
       IN  /\ ~TruthyNum(voucher.discount_amount)
           /\ TruthyNum(voucher.discount_percent)
           /\ package.price = None

\* VoucherAmount with the percentage taking precedence over the flat amount
VoucherAmountPercentFirst(args, package) ==
    IF TruthyStr(args.voucher_code) /\ FindVoucher(args.voucher_code) # None
    THEN LET voucher == FindVoucher(args.voucher_code)[1]
         IN  IF TruthyNum(voucher.discount_percent) /\ package.price # None
             THEN Percent(package.price[1], voucher.discount_percent[1])
             ELSE IF TruthyNum(voucher.discount_amount)
             THEN voucher.discount_amount[1]
             ELSE 0
    ELSE 0

\* step 3: the amount of the active voucher of that code, 0 without one
VoucherAmount(args, package) ==
    IF TruthyStr(args.voucher_code) /\ FindVoucher(args.voucher_code) # None
    THEN LET voucher == FindVoucher(args.voucher_code)[1]
         IN  IF TruthyNum(voucher.discount_amount)
             THEN voucher.discount_amount[1]
             ELSE IF TruthyNum(voucher.discount_percent)
             THEN Percent(package.price[1], voucher.discount_percent[1])
             ELSE 0
    ELSE 0

\* step 4: the template the invoice is created under
ResolveTemplateId(args, tpls) ==
    IF ~TruthyStr(args.template_id) /\ DefaultTemplate(tpls) # None
    THEN Some(DefaultTemplate(tpls)[1].bubble_id)
    ELSE args.template_id

\* SstRate without the template's veto
SstRateIgnoringTemplate(args, tpls) ==
    IF args.apply_sst THEN DEFAULT_SST_RATE ELSE 0

\* step 4: the tax rate, in percent
SstRate(args, tpls) ==
    LET template_id == ResolveTemplateId(args, tpls)
        template == FindTemplate(tpls, template_id)
    IN  IF ~args.apply_sst THEN 0
        ELSE IF TruthyStr(template_id) /\ template # None /\ ~template[1].apply_sst
        THEN 0
        ELSE DEFAULT_SST_RATE

\* InvoiceNewItem(...) with qty 1
Item(invoice_id, description, price, item_type, sort_order) ==
    [invoice_id |-> invoice_id, description |-> description, qty |-> 1,
     unit_price |-> price, total_price |-> price,
     item_type |-> item_type, sort_order |-> sort_order]

\* UnitPrice leaving the markup out
UnitPriceWithoutMarkup(args, package) ==
    IF TruthyNum(package.price) THEN package.price[1] ELSE 0

\* step 6: package.price or Decimal(0), plus the markup
UnitPrice(args, package) ==
    (IF TruthyNum(package.price) THEN package.price[1] ELSE 0) + args.agent_markup

PackageItem(args, package, invoice_id) ==
    Item(invoice_id,
         IF TruthyStr(package.invoice_desc) THEN package.invoice_desc[1]
         ELSE IF TruthyStr(package.name) THEN package.name[1]
         ELSE "Package Item",
         UnitPrice(args, package), "package", 0)

HasFixedDiscount(args) == args.discount_fixed # 0 /\ args.discount_fixed > 0

HasPercentDiscount(args) == args.discount_percent # 0 /\ args.discount_percent > 0

\* step 6b: package.price * (discount_percent / 100) is a TypeError when the
\* package has no price
PercentRaises(args, package) == HasPercentDiscount(args) /\ package.price = None

\* DiscountItems with the percentage taken on the price with the markup
DiscountItemsOnUnitPrice(args, package, invoice_id) ==
    LET fixed == IF HasFixedDiscount(args)
                 THEN <<Item(invoice_id, "Discount (RM)", -args.discount_fixed,
                             "discount", 100)>>
                 ELSE << >>
        percent == IF HasPercentDiscount(args)
                   THEN <<Item(invoice_id, "Discount (%)",
                               -Percent(UnitPrice(args, package),
                                        args.discount_percent),
                               "discount", 100 + Len(fixed))>>
                   ELSE << >>
    IN  fixed \o percent

\* DiscountItems with both discounts combined into one line
DiscountItemsMerged(args, package, invoice_id) ==
    LET fixed == IF HasFixedDiscount(args) THEN args.discount_fixed ELSE 0
        percent == IF HasPercentDiscount(args)
                   THEN Percent(package.price[1], args.discount_percent)
                   ELSE 0
    IN  IF HasFixedDiscount(args) \/ HasPercentDiscount(args)
        THEN <<Item(invoice_id, "Discount", -(fixed + percent), "discount", 100)>>
        ELSE << >>

\* step 6b: the discount items, sort orders counted from 100
DiscountItems(args, package, invoice_id) ==
    LET fixed == IF HasFixedDiscount(args)
                 THEN <<Item(invoice_id, "Discount (RM)", -args.discount_fixed,
                             "discount", 100)>>
                 ELSE << >>
        discount_sort_order == 100 + Len(fixed)
        percent == IF HasPercentDiscount(args)
                   THEN <<Item(invoice_id, "Discount (%)",
                               -Percent(package.price[1], args.discount_percent),
                               "discount", discount_sort_order)>>
                   ELSE << >>
    IN  fixed \o percent

\* step 6c
VoucherItems(args, voucher_amount, invoice_id) ==
    IF TruthyStr(args.voucher_code) /\ voucher_amount > 0
    THEN <<Item(invoice_id, "Voucher (" \o args.voucher_code[1] \o ")",
                -voucher_amount, "voucher", 101)>>
    ELSE << >>

\* EppFeeItems adding the line whenever amount and description are given
EppFeeItemsWhenGiven(args, invoice_id) ==
    IF args.epp_fee_amount # None /\ TruthyStr(args.epp_fee_description)
    THEN <<Item(invoice_id,
                "Bank Processing Fee (" \o args.epp_fee_description[1] \o ")",
                args.epp_fee_amount[1], "epp_fee", 200)>>
    ELSE << >>

\* step 6d
EppFeeItems(args, invoice_id) ==
    IF /\ TruthyNum(args.epp_fee_amount)
       /\ args.epp_fee_amount[1] > 0
       /\ TruthyStr(args.epp_fee_description)
    THEN <<Item(invoice_id,
                "Bank Processing Fee (" \o args.epp_fee_description[1] \o ")",
                args.epp_fee_amount[1], "epp_fee", 200)>>
    ELSE << >>

\* steps 6 to 6d: the items in the order they are added
BuildItems(args, package, voucher_amount, invoice_id) ==
    <<PackageItem(args, package, invoice_id)>>
        \o DiscountItems(args, package, invoice_id)
        \o VoucherItems(args, voucher_amount, invoice_id)
        \o EppFeeItems(args, invoice_id)

TotalPrices(its) == [k \in 1..Len(its) |-> its[k].total_price]

AbsTotalPrices(its) == [k \in 1..Len(its) |-> Abs(its[k].total_price)]

\* the tax taken on any amount, whatever its sign
SstAmountOfAnyAmount(taxable_amount, sst_rate) ==
    Percent(taxable_amount, sst_rate)

\* the tax on the taxable amount
SstAmount(taxable_amount, sst_rate) ==
    IF taxable_amount > 0 THEN Percent(taxable_amount, sst_rate) ELSE 0

\* _calculate_invoice_totals taxing the package items before the deductions
CalculateInvoiceTotalsTaxingGross(invoice, its) ==
    LET subtotal == SumSeq(TotalPrices(its))
        gross == SumSeq(TotalPrices(
                     SelectSeq(its, LAMBDA it : it.item_type = "package")))
        sst_amount == SstAmount(gross, invoice.sst_rate)
    IN  [invoice EXCEPT
            !.subtotal = subtotal,
            !.discount_amount = SumSeq(AbsTotalPrices(
                SelectSeq(its, LAMBDA it : it.item_type = "discount"))),
            !.voucher_amount = SumSeq(AbsTotalPrices(
                SelectSeq(its, LAMBDA it : it.item_type = "voucher"))),
            !.sst_amount = sst_amount,
            !.total_amount = subtotal + sst_amount]

\* InvoiceRepository._calculate_invoice_totals
CalculateInvoiceTotals(invoice, its) ==
    LET subtotal == IF its # << >> THEN SumSeq(TotalPrices(its)) ELSE 0
        discount_items == SelectSeq(its, LAMBDA it : it.item_type = "discount")
        voucher_items == SelectSeq(its, LAMBDA it : it.item_type = "voucher")
        taxable_amount == subtotal
        sst_amount == SstAmount(taxable_amount, invoice.sst_rate)
    IN  [invoice EXCEPT
            !.subtotal = subtotal,
            !.discount_amount = SumSeq(AbsTotalPrices(discount_items)),
            !.voucher_amount = SumSeq(AbsTotalPrices(voucher_items)),
            !.sst_amount = sst_amount,
            !.total_amount = taxable_amount + sst_amount]


\* CustomerOf making a customer of the placeholder name
CustomerOfPlaceholder(custs, args) ==
    LET name == IF TruthyStr(args.customer_name) THEN args.customer_name
                ELSE Some("Sample Quotation")
    IN  IF FindCustomer(custs, name) # None
        THEN FindCustomer(custs, name)
        ELSE Some([id |-> Len(custs) + 1, name |-> name[1],
                   phone |-> args.customer_phone, email |-> None,
                   address |-> args.customer_address])

\* step 2: the customer row the invoice is linked to, None without a name
CustomerOf(custs, args) ==
    IF ~TruthyStr(args.customer_name) THEN None
    ELSE IF FindCustomer(custs, args.customer_name) # None
    THEN FindCustomer(custs, args.customer_name)
    ELSE Some([id |-> Len(custs) + 1, name |-> args.customer_name[1],
               phone |-> args.customer_phone, email |-> None,
               address |-> args.customer_address])

\* CustomersAfter adding a row for every call that names a customer
CustomersAfterAlwaysAdding(custs, args) ==
    IF TruthyStr(args.customer_name)
    THEN Append(custs, [id |-> Len(custs) + 1, name |-> args.customer_name[1],
                        phone |-> args.customer_phone, email |-> None,
                        address |-> args.customer_address])
    ELSE custs

\* step 2: the customer table after db.add(customer), db.flush()
CustomersAfter(custs, args) ==
    IF TruthyStr(args.customer_name) /\ FindCustomer(custs, args.customer_name) = None
    THEN Append(custs, CustomerOf(custs, args)[1])
    ELSE custs

\* the share link expiring at the moment the invoice is created
ShareExpiresAtOnce(time) == Some(time)

\* step 5: datetime.now(timezone.utc) + timedelta(days=SHARE_LINK_EXPIRY_DAYS)
ShareExpiresAt(time) == Some(time + SHARE_LINK_EXPIRY_DAYS)

\* step 5: InvoiceNew(...), before its totals are calculated
NewInvoice(invs, custs, tpls, time, args, token, package) ==
    LET customer == CustomerOf(custs, args)
    IN  [bubble_id |-> Len(invs) + 1,
         invoice_number |-> GenerateInvoiceNumber(invs),
         customer_id |-> IF customer # None THEN Some(customer[1].id) ELSE None,
         customer_name_snapshot |->
             IF customer # None THEN customer[1].name ELSE "Sample Quotation",
         customer_phone_snapshot |->
             IF customer # None THEN customer[1].phone ELSE args.customer_phone,
         customer_address_snapshot |->
             IF customer # None THEN customer[1].address ELSE args.customer_address,
         customer_email_snapshot |->
             IF customer # None THEN customer[1].email ELSE None,
         package_id |-> args.package_id,
         template_id |-> ResolveTemplateId(args, tpls),
         discount_fixed |-> args.discount_fixed,
         discount_percent |-> args.discount_percent,
         agent_markup |-> args.agent_markup,
         voucher_code |-> args.voucher_code,
         voucher_amount |-> VoucherAmount(args, package),
         sst_rate |-> SstRate(args, tpls),
         subtotal |-> 0, discount_amount |-> 0, sst_amount |-> 0,
         total_amount |-> 0,
         status |-> "draft",
         share_token |-> Some(token),
         share_enabled |-> TRUE,
         share_expires_at |-> ShareExpiresAt(time),
         share_access_count |-> 0,
         viewed_at |-> None]

\* the flush checking the unique constraint on invoice_number only
FlushRaisesOnNumberOnly(invs, invoice) ==
    \E k \in 1..Len(invs) : invs[k].invoice_number = invoice.invoice_number

\* step 5: db.flush() of the invoice row, against the unique constraints on
\* invoice_number and share_token (invoice_models.py)
FlushRaises(invs, invoice) ==
    \E k \in 1..Len(invs) :
        \/ invs[k].invoice_number = invoice.invoice_number
        \/ invs[k].share_token = invoice.share_token

\* create_on_the_fly refusing deductions larger than the price with markup
CreateRaisesOnExcess(invs, custs, tpls, time, args, token) ==
    LET package == FindPackage(args.package_id)
    IN  IF package = None THEN "ValueError"
        ELSE IF VoucherRaises(args, package[1]) THEN "TypeError"
        ELSE IF \/ args.discount_fixed > UnitPrice(args, package[1])
                \/ VoucherAmount(args, package[1]) > UnitPrice(args, package[1])
        THEN "ValueError"
        ELSE IF FlushRaises(invs, NewInvoice(invs, custs, tpls, time, args,
                                             token, package[1]))
        THEN "IntegrityError"
        ELSE IF PercentRaises(args, package[1]) THEN "TypeError"
        ELSE ""

\* the exception create_on_the_fly ends with, "" when it returns
CreateRaises(invs, custs, tpls, time, args, token) ==
    LET package == FindPackage(args.package_id)
    IN  IF package = None THEN "ValueError"
        ELSE IF VoucherRaises(args, package[1]) THEN "TypeError"
        ELSE IF FlushRaises(invs, NewInvoice(invs, custs, tpls, time, args,
                                             token, package[1]))
        THEN "IntegrityError"
        ELSE IF PercentRaises(args, package[1]) THEN "TypeError"
        ELSE ""

\* create_on_the_fly committing the customer row before it looks up the
\* package
CreateResultCustomerFirst(invs, its, custs, tpls, time, args, token) ==
    LET raised == CreateRaises(invs, custs, tpls, time, args, token)
    IN  IF raised = "ValueError"
        THEN [raised |-> raised, ret |-> None,
              invoices |-> invs, items |-> its,
              customers |-> CustomersAfter(custs, args)]
        ELSE IF raised # ""
        THEN [raised |-> raised, ret |-> None,
              invoices |-> invs, items |-> its, customers |-> custs]
        ELSE LET package == FindPackage(args.package_id)[1]
                 fresh == NewInvoice(invs, custs, tpls, time, args, token, package)
                 built == BuildItems(args, package, fresh.voucher_amount,
                                     fresh.bubble_id)
                 invoice == CalculateInvoiceTotals(fresh, built)
             IN  [raised |-> "", ret |-> Some(invoice),
                  invoices |-> Append(invs, invoice),
                  items |-> its \o built,
                  customers |-> CustomersAfter(custs, args)]

\* InvoiceRepository.create_on_the_fly: the exception raised, the invoice
\* returned and the tables after the call
CreateResult(invs, its, custs, tpls, time, args, token) ==
    LET raised == CreateRaises(invs, custs, tpls, time, args, token)
    IN  IF raised # ""
        THEN [raised |-> raised, ret |-> None,
              invoices |-> invs, items |-> its, customers |-> custs]
        ELSE LET package == FindPackage(args.package_id)[1]
                 fresh == NewInvoice(invs, custs, tpls, time, args, token, package)
                 built == BuildItems(args, package, fresh.voucher_amount,
                                     fresh.bubble_id)
                 invoice == CalculateInvoiceTotals(fresh, built)
             IN  [raised |-> "", ret |-> Some(invoice),
                  invoices |-> Append(invs, invoice),
                  items |-> its \o built,
                  customers |-> CustomersAfter(custs, args)]

\* get_by_share_token with the link dead at the instant of its expiry
GetByShareTokenExpiringEarly(invs, time, share_token) ==
    LET invoice == FindByToken(invs, share_token)
    IN  IF invoice # None /\ invoice[1].share_enabled
        THEN IF /\ invoice[1].share_expires_at # None
                /\ invoice[1].share_expires_at[1] <= time
             THEN None
             ELSE invoice
        ELSE None

\* get_by_share_token without the check of share_enabled
GetByShareTokenIgnoringEnabled(invs, time, share_token) ==
    LET invoice == FindByToken(invs, share_token)
    IN  IF invoice # None
        THEN IF /\ invoice[1].share_expires_at # None
                /\ invoice[1].share_expires_at[1] < time
             THEN None
             ELSE invoice
        ELSE None

\* InvoiceRepository.get_by_share_token
GetByShareToken(invs, time, share_token) ==
    LET invoice == FindByToken(invs, share_token)
    IN  IF invoice # None /\ invoice[1].share_enabled
        THEN IF /\ invoice[1].share_expires_at # None
                /\ invoice[1].share_expires_at[1] < time
             THEN None
             ELSE invoice
        ELSE None

\* record_view setting the counter to 1 instead of adding 1 to it
RecordViewResultResetting(invs, time, bubble_id) ==
    [k \in 1..Len(invs) |->
        IF GetById(invs, bubble_id) # None /\ invs[k] = GetById(invs, bubble_id)[1]
        THEN [invs[k] EXCEPT !.viewed_at = Some(time),
                             !.share_access_count = 1]
        ELSE invs[k]]

\* record_view falling back on the first invoice when the id matches none
RecordViewResultFallingBack(invs, time, bubble_id) ==
    [k \in 1..Len(invs) |->
        IF \/ GetById(invs, bubble_id) # None /\ invs[k] = GetById(invs, bubble_id)[1]
           \/ GetById(invs, bubble_id) = None /\ k = 1
        THEN [invs[k] EXCEPT !.viewed_at = Some(time),
                             !.share_access_count = @ + 1]
        ELSE invs[k]]

\* record_view blanking the phone snapshot of the invoice viewed
RecordViewResultForgettingPhone(invs, time, bubble_id) ==
    [k \in 1..Len(invs) |->
        IF GetById(invs, bubble_id) # None /\ invs[k] = GetById(invs, bubble_id)[1]
        THEN [invs[k] EXCEPT !.viewed_at = Some(time),
                             !.share_access_count = @ + 1,
                             !.customer_phone_snapshot = None]
        ELSE invs[k]]

\* InvoiceRepository.record_view: the invoice table after the call
RecordViewResult(invs, time, bubble_id) ==
    [k \in 1..Len(invs) |->
        IF GetById(invs, bubble_id) # None /\ invs[k] = GetById(invs, bubble_id)[1]
        THEN [invs[k] EXCEPT !.viewed_at = Some(time),
                             !.share_access_count = @ + 1]
        ELSE invs[k]]

-----------------------------------------------------------------------------
(* POST /api/v1/invoices/on-the-fly.  A string the endpoint parses is a    *)
(* sequence of one-character strings.                                      *)

DigitChars == <<"0", "1", "2", "3", "4", "5", "6", "7", "8", "9">>

IsDigit(c) == \E d \in 1..10 : DigitChars[d] = c

DigitOf(c) == (CHOOSE d \in 1..10 : DigitChars[d] = c) - 1

\* str.strip(): the string without its leading and trailing blanks
RECURSIVE LStrip(_)
LStrip(s) == IF s # << >> /\ Head(s) = " " THEN LStrip(Tail(s)) ELSE s

RECURSIVE RStrip(_)
RStrip(s) ==
    IF s # << >> /\ s[Len(s)] = " " THEN RStrip(SubSeq(s, 1, Len(s) - 1)) ELSE s

Strip(s) == RStrip(LStrip(s))

\* str.replace(c, r) for a one-character c
RECURSIVE ReplaceChar(_, _, _)
ReplaceChar(s, c, r) ==
    IF s = << >> THEN << >>
    ELSE (IF Head(s) = c THEN r ELSE <<Head(s)>>) \o ReplaceChar(Tail(s), c, r)

\* str.replace('RM', '')
RECURSIVE RemoveRM(_)
RemoveRM(s) ==
    IF s = << >> THEN << >>
    ELSE IF Len(s) >= 2 /\ s[1] = "R" /\ s[2] = "M"
    THEN RemoveRM(SubSeq(s, 3, Len(s)))
    ELSE <<Head(s)>> \o RemoveRM(Tail(s))

\* str.split(): the maximal runs of characters other than blanks; word is
\* the run being read
RECURSIVE SplitFrom(_, _)
SplitFrom(s, word) ==
    IF s = << >> THEN (IF word = << >> THEN << >> ELSE <<word>>)
    ELSE IF Head(s) = " "
    THEN (IF word = << >> THEN << >> ELSE <<word>>) \o SplitFrom(Tail(s), << >>)
    ELSE SplitFrom(Tail(s), Append(word, Head(s)))

Split(s) == SplitFrom(s, << >>)

Contains(s, c) == \E k \in 1..Len(s) : s[k] = c

\* the string without its sign
Unsigned(s) ==
    IF s # << >> /\ Head(s) \in {"-", "+"} THEN Tail(s) ELSE s

\* Decimal(s) accepts s: an optional sign, then digits with at most one
\* decimal point and at least one digit
IsDecimal(s) ==
    LET u == Unsigned(s)
    IN  /\ \A k \in 1..Len(u) : IsDigit(u[k]) \/ u[k] = "."
        /\ \E k \in 1..Len(u) : IsDigit(u[k])
        /\ Cardinality({k \in 1..Len(u) : u[k] = "."}) <= 1

\* the number a string of digits writes
RECURSIVE DigitsValue(_)
DigitsValue(d) ==
    IF d = << >> THEN 0
    ELSE 10 * DigitsValue(SubSeq(d, 1, Len(d) - 1)) + DigitOf(d[Len(d)])

\* the first six decimals of a fraction, as millionths
RECURSIVE FractionValue(_, _)
FractionValue(d, unit) ==
    IF d = << >> \/ unit = 0 THEN 0
    ELSE DigitOf(Head(d)) * unit + FractionValue(Tail(d), unit \div 10)

\* Decimal(s), in millionths
DecimalValue(s) ==
    LET u == Unsigned(s)
        point == IF Contains(u, ".")
                 THEN CHOOSE k \in 1..Len(u) : u[k] = "."
                 ELSE Len(u) + 1
        whole == DigitsValue(SubSeq(u, 1, point - 1))
        fraction == FractionValue(SubSeq(u, point + 1, Len(u)), 100000)
        magnitude == RM(whole) + fraction
    IN  IF s # << >> /\ Head(s) = "-" THEN -magnitude ELSE magnitude

\* a Decimal percentage as the whole number of percent the engine works with
WholePercent(millionths) == millionths \div 1000000

\* lines 41 to 51, one part of discount_given: a part with a % sets the
\* percentage, and Decimal raises InvalidOperation on what is left when that
\* is no number; any other part sets the fixed amount, and is skipped when it
\* is no number
ParsePart(parsed, part) ==
    IF parsed.raised # "" THEN parsed
    ELSE IF Contains(part, "%")
    THEN LET text == ReplaceChar(part, "%", << >>)
         IN  IF IsDecimal(text)
             THEN [parsed EXCEPT !.discount_percent = WholePercent(DecimalValue(text))]
             ELSE [parsed EXCEPT !.raised = "InvalidOperation"]
    ELSE LET text == ReplaceChar(RemoveRM(part), ",", << >>)
         IN  IF IsDecimal(text)
             THEN [parsed EXCEPT !.discount_fixed = DecimalValue(text)]
             ELSE parsed

RECURSIVE ParseParts(_, _)
ParseParts(parsed, parts) ==
    IF parts = << >> THEN parsed
    ELSE ParseParts(ParsePart(parsed, Head(parts)), Tail(parts))

\* lines 33 to 51: discount_given parsed into discount_fixed and
\* discount_percent
ParseDiscountGiven(discount_given) ==
    ParseParts([raised |-> "", discount_fixed |-> 0, discount_percent |-> 0],
               Split(ReplaceChar(Strip(discount_given), "+", <<" ">>)))

\* lines 53 to 59: the discounts handed to the engine
FinalDiscounts(request_data) ==
    IF request_data.discount_given # None /\ request_data.discount_given[1] # << >>
    THEN ParseDiscountGiven(request_data.discount_given[1])
    ELSE [raised |-> "",
          discount_fixed |-> IF TruthyNum(request_data.discount_fixed)
                             THEN request_data.discount_fixed[1] ELSE 0,
          discount_percent |-> IF TruthyNum(request_data.discount_percent)
                               THEN request_data.discount_percent[1] ELSE 0]

\* InvoiceOnTheFlyRequest: the body breaks a declared range (ge, le)
SchemaRejects(request_data) ==
    \/ request_data.discount_fixed # None /\ request_data.discount_fixed[1] < 0
    \/ /\ request_data.discount_percent # None
       /\ \/ request_data.discount_percent[1] < 0
          \/ request_data.discount_percent[1] > 100
    \/ request_data.agent_markup < 0
    \/ request_data.epp_fee_amount # None /\ request_data.epp_fee_amount[1] < 0

\* lines 62 to 76: the arguments create_on_the_fly is called with
EngineArgs(request_data) ==
    [package_id |-> request_data.package_id,
     discount_fixed |-> FinalDiscounts(request_data).discount_fixed,
     discount_percent |-> FinalDiscounts(request_data).discount_percent,
     apply_sst |-> request_data.apply_sst,
     template_id |-> request_data.template_id,
     voucher_code |-> request_data.voucher_code,
     agent_markup |-> request_data.agent_markup,
     customer_name |-> request_data.customer_name,
     customer_phone |-> request_data.customer_phone,
     customer_address |-> request_data.customer_address,
     epp_fee_amount |-> request_data.epp_fee_amount,
     epp_fee_description |-> request_data.epp_fee_description]

\* the endpoint answering every fault of the engine with a client error
StatusOfBlamingTheClient(raised) ==
    IF raised = "" THEN 200 ELSE 400

\* lines 93 to 101: the status the endpoint answers an engine outcome with
StatusOf(raised) ==
    IF raised = "" THEN 200
    ELSE IF raised = "ValueError" THEN 400
    ELSE 500

-----------------------------------------------------------------------------
(* Bounds *)

\* rows of invoice_new the store may hold
MaxInvoices == 2

\* rows of invoice_new in the calculation specification
MaxCalculated == 1

\* rows of invoice_new in the specification of the invoice numbers
MaxNumbered == 3

\* views recorded on one invoice
MaxViews == 2

\* the last day the clock reaches
MaxTime == 8

\* the values secrets.token_urlsafe(16) is drawn from
Tokens == {"tokA", "tokB"}

\* the same with one value more, for the specification of the numbers
NumberTokens == Tokens \cup {"tokC"}

\* the tokens a caller of the public routes presents: those and a guess
PresentedTokens == Tokens \cup {"guess"}

\* the clock advances by the expiry window or by one day more
TickSteps == {SHARE_LINK_EXPIRY_DAYS, SHARE_LINK_EXPIRY_DAYS + 1}

\* the arguments of create_on_the_fly in the lifecycle specification
Requests ==
    [package_id : {"pkgA", "pkgX"},
     discount_fixed : {0},
     discount_percent : {10},
     apply_sst : {TRUE},
     template_id : {None},
     voucher_code : {None},
     agent_markup : {0},
     customer_name : {None, Some("Alice")},
     customer_phone : {Some("012")},
     customer_address : {None},
     epp_fee_amount : {None},
     epp_fee_description : {None}]

\* the arguments of create_on_the_fly in the calculation specification:
\* every combination of package, discounts, voucher, markup and fee with tax
\* asked for and no template, and every combination of tax flag and template
\* with a few of the amounts
MoneyRequests ==
    [package_id : {"pkgA", "pkgB", "pkgN", "pkgX"},
     discount_fixed : {0, RM(50), RM(1500)},
     discount_percent : {0, 10},
     apply_sst : {TRUE},
     template_id : {None},
     voucher_code : {None, Some("FLAT"), Some("PCT"), Some("BOTH"),
                     Some("ZEROFLAT"), Some("OFF"), Some("NOPE")},
     agent_markup : {0, RM(50)},
     customer_name : {None},
     customer_phone : {None},
     customer_address : {None},
     epp_fee_amount : {None, Some(0), Some(RM(30))},
     epp_fee_description : {None, Some("Maybank EPP")}]

TaxRequests ==
    [package_id : {"pkgA", "pkgB"},
     discount_fixed : {0, RM(1500)},
     discount_percent : {0, 10},
     apply_sst : BOOLEAN,
     template_id : {None, Some("tplTax"), Some("tplNoTax"), Some("tplGone")},
     voucher_code : {None, Some("FLAT")},
     agent_markup : {0},
     customer_name : {None},
     customer_phone : {None},
     customer_address : {None},
     epp_fee_amount : {None},
     epp_fee_description : {None}]

\* the arguments of create_on_the_fly in the specification of the numbers
NumberRequests ==
    [package_id : {"pkgA"},
     discount_fixed : {0},
     discount_percent : {0, 10},
     apply_sst : {FALSE},
     template_id : {None},
     voucher_code : {None},
     agent_markup : {0},
     customer_name : {None, Some(""), Some("Alice")},
     customer_phone : {Some("012")},
     customer_address : {None},
     epp_fee_amount : {None},
     epp_fee_description : {None}]

\* a plain request, of which the rows already in the store were created
PlainArgs ==
    [package_id |-> "pkgA", discount_fixed |-> 0, discount_percent |-> 0,
     apply_sst |-> FALSE, template_id |-> None, voucher_code |-> None,
     agent_markup |-> 0, customer_name |-> None, customer_phone |-> None,
     customer_address |-> None, epp_fee_amount |-> None,
     epp_fee_description |-> None]

\* a fixed discount or a voucher just above the price of the package, with
\* and without markup, percentage and fee
ExcessRequests ==
    {[PlainArgs EXCEPT !.apply_sst = TRUE,
                       !.discount_fixed = excess[1],
                       !.voucher_code = excess[2],
                       !.discount_percent = discount_percent,
                       !.agent_markup = agent_markup,
                       !.epp_fee_amount = epp_fee_amount,
                       !.epp_fee_description = Some("Maybank EPP")] :
        excess \in {<<RM(1060), None>>, <<0, Some("BIG")>>},
        discount_percent \in {0, 10},
        agent_markup \in {0, RM(50)},
        epp_fee_amount \in {None, Some(RM(30))}}

EmptyStore == [invoices |-> << >>, items |-> << >>, customers |-> << >>]

\* a store holding one invoice whose sharing was switched off, or whose link
\* was given no expiry, after it was created
StoreWith(share_enabled, share_expires_at) ==
    LET r == CreateResult(<< >>, << >>, << >>, << >>, 0, PlainArgs, "tokA")
    IN  [invoices |-> <<[r.ret[1] EXCEPT !.share_enabled = share_enabled,
                                         !.share_expires_at = share_expires_at]>>,
         items |-> r.items,
         customers |-> r.customers]

InitialStores ==
    {EmptyStore, StoreWith(FALSE, Some(SHARE_LINK_EXPIRY_DAYS)), StoreWith(TRUE, None)}

\* a store holding one invoice, the n-th the generator numbered
StoreNumbered(n) ==
    LET r == CreateResult(<< >>, << >>, << >>, << >>, 0, PlainArgs, "tokA")
    IN  [invoices |-> <<[r.ret[1] EXCEPT !.invoice_number = FormatInvoiceNumber(n)]>>,
         items |-> r.items,
         customers |-> r.customers]

\* the last number of INVOICE_NUMBER_LENGTH digits
LastPadded == DigitsToNum([k \in 1..INVOICE_NUMBER_LENGTH |-> 9])

NoCall == [op |-> "none"]

\* the callers that create invoices at the same time
Callers == {"s1", "s2"}

\* a caller outside create_on_the_fly: no arguments, no number read, no row
\* flushed
IdleSession ==
    [pc |-> "idle", args |-> PlainArgs, invoice_number |-> None,
     customers |-> << >>, invoices |-> << >>, items |-> << >>]

NoSessions == [c \in Callers |-> IdleSession]

\* rows of invoice_new in the specification of the endpoint
MaxPosted == 2

\* discount_given as clients may write it: "500 10%", "RM1,000+5%",
\* "10% 10.50", "abc", "12a 10%", "x%", "%", "-500", "150%", " " and ""
DiscountStrings ==
    { <<"5", "0", "0", " ", "1", "0", "%">>,
      <<"R", "M", "1", ",", "0", "0", "0", "+", "5", "%">>,
      <<"1", "0", "%", " ", "1", "0", ".", "5", "0">>,
      <<"a", "b", "c">>,
      <<"1", "2", "a", " ", "1", "0", "%">>,
      <<"x", "%">>,
      <<"%">>,
      <<"-", "5", "0", "0">>,
      <<"1", "5", "0", "%">>,
      <<" ">>,
      << >> }

\* a request body with the defaults of InvoiceOnTheFlyRequest
Body(package_id, discount_fixed, discount_percent, discount_given, agent_markup) ==
    [package_id |-> package_id,
     discount_fixed |-> discount_fixed,
     discount_percent |-> discount_percent,
     discount_given |-> discount_given,
     apply_sst |-> TRUE,
     template_id |-> None,
     voucher_code |-> None,
     agent_markup |-> agent_markup,
     customer_name |-> None,
     customer_phone |-> None,
     customer_address |-> None,
     epp_fee_amount |-> None,
     epp_fee_description |-> None]

\* the request bodies of the endpoint: discounts in the explicit fields,
\* inside and outside their declared ranges, and discounts in discount_given
Bodies ==
    {Body(package_id, discount_fixed, discount_percent, None, 0) :
        package_id \in {"pkgA", "pkgX", "pkgN"},
        discount_fixed \in {None, Some(0), Some(RM(50)), Some(-RM(1))},
        discount_percent \in {None, Some(10), Some(101)}}
    \cup
    {Body("pkgA", Some(0), Some(0), None, agent_markup) :
        agent_markup \in {RM(50), -RM(1)}}
    \cup
    {Body(package_id, explicit[1], explicit[2], Some(discount_given), 0) :
        package_id \in {"pkgA", "pkgX"},
        explicit \in {<<Some(0), Some(0)>>, <<Some(RM(50)), Some(10)>>},
        discount_given \in DiscountStrings}

\* rows of invoice_new in the specification of the customers
MaxCustomerInvoices == 2

\* the arguments of create_on_the_fly in the specification of the customers:
\* no name or one of two names, with different phones and addresses
CustomerRequests ==
    {[PlainArgs EXCEPT !.customer_name = customer_name,
                       !.customer_phone = customer_phone,
                       !.customer_address = customer_address] :
        customer_name \in {None, Some("Alice"), Some("Bob")},
        customer_phone \in {Some("012"), Some("999")},
        customer_address \in {None, Some("KL")}}

\* rows of invoice_new in the specification of the sessions
MaxCommitted == 2

\* the arguments of create_on_the_fly in the specification of the sessions:
\* a plain call, a call that adds a customer, calls that raise after the
\* customer was flushed (voucher) and after the invoice was flushed
\* (percentage), both on the package without a price, and an unknown package
SessionRequests ==
    { PlainArgs,
      [PlainArgs EXCEPT !.customer_name = Some("Alice"), !.discount_percent = 10],
      [PlainArgs EXCEPT !.package_id = "pkgN", !.customer_name = Some("Alice"),
                        !.discount_percent = 10],
      [PlainArgs EXCEPT !.package_id = "pkgN", !.customer_name = Some("Alice"),
                        !.voucher_code = Some("PCT")],
      [PlainArgs EXCEPT !.package_id = "pkgX", !.customer_name = Some("Alice")] }

-----------------------------------------------------------------------------
(* Actions *)

\* repo.create_on_the_fly(**args), the share token drawn being token
CreateOnTheFly(args, token) ==
    LET r == CreateResult(invoices, items, customers, templates, now, args, token)
    IN  /\ invoices' = r.invoices
        /\ items' = r.items
        /\ customers' = r.customers
        /\ last' = [op |-> "create_on_the_fly", args |-> args,
                    raised |-> r.raised,
                    ret |-> IF r.ret = None THEN None ELSE Some(r.ret[1].bubble_id)]
        /\ UNCHANGED <<templates, now, call, sessions>>

Create ==
    /\ Len(invoices) < MaxInvoices
    /\ \E args \in Requests, token \in Tokens : CreateOnTheFly(args, token)

CreateCall ==
    /\ Len(invoices) < MaxCalculated
    /\ \E token \in Tokens : CreateOnTheFly(call, token)

CreateNumbered ==
    /\ Len(invoices) < MaxNumbered
    /\ \E args \in NumberRequests, token \in NumberTokens :
           CreateOnTheFly(args, token)

CreateForCustomer ==
    /\ Len(invoices) < MaxCustomerInvoices
    /\ \E args \in CustomerRequests, token \in Tokens :
           CreateOnTheFly(args, token)

\* repo.record_view(bubble_id)
RecordView(bubble_id) ==
    /\ \A k \in 1..Len(invoices) :
           invoices[k].bubble_id = bubble_id
               => invoices[k].share_access_count < MaxViews
    /\ invoices' = RecordViewResult(invoices, now, bubble_id)
    /\ last' = [op |-> "record_view", args |-> bubble_id,
                raised |-> "", ret |-> None]
    /\ UNCHANGED <<items, customers, templates, now, call, sessions>>

Record == \E bubble_id \in 1..(MaxInvoices + 1) : RecordView(bubble_id)

\* HTTPException(status_code=404, detail="Invoice not found or link expired")
NotFound(op, share_token) ==
    [op |-> op, args |-> share_token, status |-> 404,
     detail |-> "Invoice not found or link expired"]

\* GET /view/{share_token}
ViewSharedInvoice(share_token) ==
    LET invoice == GetByShareToken(invoices, now, share_token)
    IN  /\ invoice # None => invoice[1].share_access_count < MaxViews
        /\ IF invoice = None
           THEN /\ last' = NotFound("view_shared_invoice", share_token)
                /\ UNCHANGED invoices
           ELSE /\ invoices' = RecordViewResult(invoices, now, invoice[1].bubble_id)
                /\ last' = [op |-> "view_shared_invoice", args |-> share_token,
                            status |-> 200,
                            bubble_id |-> invoice[1].bubble_id]
        /\ UNCHANGED <<items, customers, templates, now, call, sessions>>

View == \E share_token \in PresentedTokens : ViewSharedInvoice(share_token)

\* the download route recording a view of the invoice it resolves
DownloadInvoicePdfRecording(share_token, pdf_ok) ==
    LET invoice == GetByShareToken(invoices, now, share_token)
    IN  /\ last' = IF invoice = None
                   THEN NotFound("download_invoice_pdf", share_token)
                   ELSE IF ~pdf_ok
                   THEN [op |-> "download_invoice_pdf", args |-> share_token,
                         status |-> 500, detail |-> "Failed to generate PDF"]
                   ELSE [op |-> "download_invoice_pdf", args |-> share_token,
                         status |-> 200,
                         bubble_id |-> invoice[1].bubble_id]
        /\ invoices' = IF invoice = None THEN invoices
                       ELSE RecordViewResult(invoices, now, invoice[1].bubble_id)
        /\ UNCHANGED <<items, customers, templates, now, call, sessions>>

\* GET /view/{share_token}/pdf; generate_invoice_pdf may raise
DownloadInvoicePdf(share_token, pdf_ok) ==
    LET invoice == GetByShareToken(invoices, now, share_token)
    IN  /\ last' = IF invoice = None
                   THEN NotFound("download_invoice_pdf", share_token)
                   ELSE IF ~pdf_ok
                   THEN [op |-> "download_invoice_pdf", args |-> share_token,
                         status |-> 500, detail |-> "Failed to generate PDF"]
                   ELSE [op |-> "download_invoice_pdf", args |-> share_token,
                         status |-> 200,
                         bubble_id |-> invoice[1].bubble_id]
        /\ UNCHANGED <<invoices, items, customers, templates, now, call, sessions>>

Download ==
    \E share_token \in PresentedTokens, pdf_ok \in BOOLEAN :
        DownloadInvoicePdf(share_token, pdf_ok)

\* POST /api/v1/invoices/on-the-fly: a body the schema rejects is answered
\* 422 by the framework, an exception of the parsing is not caught, and an
\* exception of the engine is answered 400 or 500
CreateInvoiceOnTheFly(request_data, token) ==
    LET final == FinalDiscounts(request_data)
        args == EngineArgs(request_data)
        r == CreateResult(invoices, items, customers, templates, now, args, token)
        answer(status, fault, raised, passed, ret) ==
            [op |-> "create_invoice_on_the_fly", args |-> request_data,
             status |-> status, fault |-> fault, raised |-> raised,
             passed |-> passed, ret |-> ret]
    IN  /\ IF SchemaRejects(request_data)
           THEN /\ last' = answer(422, "schema", "ValidationError", None, None)
                /\ UNCHANGED <<invoices, items, customers>>
           ELSE IF final.raised # ""
           THEN /\ last' = answer(500, "unhandled", final.raised, None, None)
                /\ UNCHANGED <<invoices, items, customers>>
           ELSE /\ invoices' = r.invoices
                /\ items' = r.items
                /\ customers' = r.customers
                /\ last' = answer(StatusOf(r.raised),
                                  IF r.raised = "" THEN "" ELSE "engine",
                                  r.raised, Some(args),
                                  IF r.ret = None THEN None
                                  ELSE Some(r.ret[1].bubble_id))
        /\ UNCHANGED <<templates, now, call, sessions>>

Post ==
    /\ Len(invoices) < MaxPosted
    /\ \E request_data \in Bodies, token \in Tokens :
           CreateInvoiceOnTheFly(request_data, token)

\* time passes
Tick ==
    \E d \in TickSteps :
        /\ now + d <= MaxTime
        /\ now' = now + d
        /\ UNCHANGED <<invoices, items, customers, templates, call, last, sessions>>

-----------------------------------------------------------------------------
(* create_on_the_fly statement by statement, every caller in a session of  *)
(* its own (get_db).  A session reads the committed rows and the rows it   *)
(* has flushed itself; its rows reach the tables at db.commit() and are    *)
(* discarded when the call raises and get_db closes the session.  An       *)
(* insert that collides, on a unique column, with a row another session    *)
(* has flushed and not yet committed waits for that session to end.        *)

\* the tables after a session was closed without a commit
RolledBackKeepingFlushed(invs, its, custs, session) ==
    [invoices |-> invs \o session.invoices,
     items |-> its \o session.items,
     customers |-> custs \o session.customers]

\* get_db, db.close(): the tables after a session was closed without a
\* commit
RolledBack(invs, its, custs, session) ==
    [invoices |-> invs, items |-> its, customers |-> custs]

\* db.commit(): the tables with the rows of the session, each under the next
\* key of its table
Committed(invs, its, custs, session) ==
    LET customer_id == Len(custs) + 1
        bubble_id == Len(invs) + 1
        new_customers == [k \in 1..Len(session.customers) |->
                             [session.customers[k] EXCEPT !.id = customer_id]]
        new_invoices == [k \in 1..Len(session.invoices) |->
                            [session.invoices[k] EXCEPT
                                !.bubble_id = bubble_id,
                                !.customer_id =
                                    IF session.customers # << >>
                                    THEN Some(customer_id) ELSE @]]
        new_items == [k \in 1..Len(session.items) |->
                         [session.items[k] EXCEPT !.invoice_id = bubble_id]]
    IN  [invoices |-> invs \o new_invoices,
         items |-> its \o new_items,
         customers |-> custs \o new_customers]

\* the call of caller c raises: its session is closed
Raise(c, raised) ==
    LET after == RolledBack(invoices, items, customers, sessions[c])
    IN  /\ invoices' = after.invoices
        /\ items' = after.items
        /\ customers' = after.customers
        /\ sessions' = [sessions EXCEPT ![c] = IdleSession]
        /\ last' = [op |-> "create_on_the_fly", args |-> sessions[c].args,
                    raised |-> raised, ret |-> None]

\* a step inside the call of caller c
Proceed(c, session) ==
    /\ sessions' = [sessions EXCEPT ![c] = session]
    /\ UNCHANGED <<invoices, items, customers, last>>

\* step 1: the package is looked up
FetchPackage(c, args) ==
    /\ sessions[c].pc = "idle"
    /\ Len(invoices) < MaxCommitted
    /\ IF FindPackage(args.package_id) = None
       THEN /\ UNCHANGED <<invoices, items, customers, sessions>>
            /\ last' = [op |-> "create_on_the_fly", args |-> args,
                        raised |-> "ValueError", ret |-> None]
       ELSE Proceed(c, [IdleSession EXCEPT !.pc = "customer", !.args = args])
    /\ UNCHANGED <<templates, now, call>>

\* step 2: the customer is looked up, and added and flushed when new
HandleCustomer(c) ==
    LET session == sessions[c]
    IN  /\ session.pc = "customer"
        /\ Proceed(c, [session EXCEPT
               !.pc = "number",
               !.customers =
                   IF /\ TruthyStr(session.args.customer_name)
                      /\ FindCustomer(customers, session.args.customer_name) = None
                   THEN <<CustomerOf(customers, session.args)[1]>>
                   ELSE << >>])
        /\ UNCHANGED <<templates, now, call>>

\* ReadInvoiceNumber with the numbers that other sessions have read kept
\* in reserve
ReadInvoiceNumberReserving(c) ==
    LET session == sessions[c]
        package == FindPackage(session.args.package_id)[1]
        held == {sessions[other].invoice_number[1] :
                    other \in {o \in Callers \ {c} :
                                  sessions[o].invoice_number # None}}
        base == DigitsToNum(GenerateInvoiceNumber(invoices).digits)
        next == CHOOSE n \in base..(base + Cardinality(Callers)) :
                    /\ FormatInvoiceNumber(n) \notin held
                    /\ \A m \in base..(n - 1) : FormatInvoiceNumber(m) \in held
    IN  /\ session.pc = "number"
        /\ IF VoucherRaises(session.args, package)
           THEN Raise(c, "TypeError")
           ELSE Proceed(c, [session EXCEPT
                    !.pc = "flush",
                    !.invoice_number = Some(FormatInvoiceNumber(next))])
        /\ UNCHANGED <<templates, now, call>>

\* steps 3 to 5, up to _generate_invoice_number: the voucher amount may
\* raise; the number is read from the committed invoices
ReadInvoiceNumber(c) ==
    LET session == sessions[c]
        package == FindPackage(session.args.package_id)[1]
    IN  /\ session.pc = "number"
        /\ IF VoucherRaises(session.args, package)
           THEN Raise(c, "TypeError")
           ELSE Proceed(c, [session EXCEPT
                    !.pc = "flush",
                    !.invoice_number = Some(GenerateInvoiceNumber(invoices))])
        /\ UNCHANGED <<templates, now, call>>

\* the invoice the session is about to add
SessionInvoice(c, token) ==
    LET session == sessions[c]
        package == FindPackage(session.args.package_id)[1]
    IN  [NewInvoice(invoices, customers, templates, now, session.args, token,
                    package)
            EXCEPT !.invoice_number = session.invoice_number[1]]

\* another session holds a flushed invoice with the same number or token
Waits(c, invoice) ==
    \E other \in Callers \ {c} : FlushRaises(sessions[other].invoices, invoice)

\* step 5: the invoice is added and flushed
FlushInvoice(c, token) ==
    LET session == sessions[c]
        invoice == SessionInvoice(c, token)
    IN  /\ session.pc = "flush"
        /\ ~Waits(c, invoice)
        /\ IF FlushRaises(invoices, invoice)
           THEN Raise(c, "IntegrityError")
           ELSE Proceed(c, [session EXCEPT !.pc = "items",
                                           !.invoices = <<invoice>>])
        /\ UNCHANGED <<templates, now, call>>

\* steps 6 to 7, up to db.commit(): the items are added and the totals
\* calculated; the percentage discount may raise
AddItems(c) ==
    LET session == sessions[c]
        package == FindPackage(session.args.package_id)[1]
        invoice == session.invoices[1]
        built == BuildItems(session.args, package, invoice.voucher_amount,
                            invoice.bubble_id)
    IN  /\ session.pc = "items"
        /\ IF PercentRaises(session.args, package)
           THEN Raise(c, "TypeError")
           ELSE Proceed(c, [session EXCEPT
                    !.pc = "commit",
                    !.items = built,
                    !.invoices = <<CalculateInvoiceTotals(invoice, built)>>])
        /\ UNCHANGED <<templates, now, call>>

\* step 7: db.commit(), which the database may refuse
Commit(c, db_ok) ==
    LET session == sessions[c]
        after == Committed(invoices, items, customers, session)
    IN  /\ session.pc = "commit"
        /\ IF db_ok
           THEN /\ invoices' = after.invoices
                /\ items' = after.items
                /\ customers' = after.customers
                /\ sessions' = [sessions EXCEPT ![c] = IdleSession]
                /\ last' = [op |-> "create_on_the_fly", args |-> session.args,
                            raised |-> "",
                            ret |-> Some(Len(after.invoices))]
           ELSE Raise(c, "OperationalError")
        /\ UNCHANGED <<templates, now, call>>

Fetch == \E c \in Callers, args \in SessionRequests : FetchPackage(c, args)

Customer == \E c \in Callers : HandleCustomer(c)

Number == \E c \in Callers : ReadInvoiceNumber(c)

Flush == \E c \in Callers, token \in Tokens : FlushInvoice(c, token)

Items == \E c \in Callers : AddItems(c)

Commits == \E c \in Callers, db_ok \in BOOLEAN : Commit(c, db_ok)

-----------------------------------------------------------------------------
(* GET /view/{share_token} statement by statement, every request in a      *)
(* session of its own (get_db).  get_by_share_token loads the invoice into *)
(* the session; get_by_id inside record_view finds it there, so            *)
(* share_access_count += 1 adds to the value loaded, and db.commit()       *)
(* writes the sum to the row.                                              *)

\* requests to GET /view/{share_token} in the specification of the views
MaxViewRequests == 4

\* a viewer between requests: nothing loaded, so many requests started and
\* so many answered 200
IdleViewer == [pc |-> "idle", loaded |-> None, started |-> 0, served |-> 0]

NoViewers == [c \in Callers |-> IdleViewer]

RECURSIVE SumOver(_, _)
SumOver(f, S) ==
    IF S = {} THEN 0
    ELSE LET c == CHOOSE x \in S : TRUE
         IN  f[c] + SumOver(f, S \ {c})

Started == SumOver([c \in Callers |-> sessions[c].started], Callers)

Served == SumOver([c \in Callers |-> sessions[c].served], Callers)

\* invoice_repo.get_by_share_token(share_token), and the 404 without an
\* invoice
ResolveToken(c, share_token) ==
    LET invoice == GetByShareToken(invoices, now, share_token)
    IN  /\ sessions[c].pc = "idle"
        /\ Started < MaxViewRequests
        /\ IF invoice = None
           THEN /\ sessions' = [sessions EXCEPT ![c].started = @ + 1]
                /\ last' = NotFound("view_shared_invoice", share_token)
           ELSE /\ sessions' = [sessions EXCEPT ![c].pc = "resolved",
                                                ![c].loaded = invoice,
                                                ![c].started = @ + 1]
                /\ UNCHANGED last
        /\ UNCHANGED <<invoices, items, customers, templates, now, call>>

\* the row of the invoice after the UPDATE the commit of record_view sends:
\* the columns assigned, with the values the session computed
RecordViewCommitted(invs, time, loaded) ==
    [k \in 1..Len(invs) |->
        IF invs[k].bubble_id = loaded.bubble_id
        THEN [invs[k] EXCEPT !.viewed_at = Some(time),
                             !.share_access_count = loaded.share_access_count + 1]
        ELSE invs[k]]

\* invoice_repo.record_view(invoice.bubble_id) and the response
RecordViewInSession(c) ==
    /\ sessions[c].pc = "resolved"
    /\ invoices' = RecordViewCommitted(invoices, now, sessions[c].loaded[1])
    /\ sessions' = [sessions EXCEPT ![c].pc = "idle",
                                    ![c].loaded = None,
                                    ![c].served = @ + 1]
    /\ last' = [op |-> "view_shared_invoice",
                args |-> sessions[c].loaded[1].share_token[1],
                status |-> 200,
                bubble_id |-> sessions[c].loaded[1].bubble_id]
    /\ UNCHANGED <<items, customers, templates, now, call>>

Resolve == \E c \in Callers, share_token \in PresentedTokens : ResolveToken(c, share_token)

Recorded == \E c \in Callers : RecordViewInSession(c)

-----------------------------------------------------------------------------
(* Specifications *)

\* the lifecycle of invoices and share links
Init ==
    /\ \E s \in InitialStores :
           /\ invoices = s.invoices
           /\ items = s.items
           /\ customers = s.customers
    /\ templates = << >>
    /\ now = 0
    /\ call = PlainArgs
    /\ last = NoCall
    /\ sessions = NoSessions

Next == Create \/ Record \/ View \/ Download \/ Tick

Spec == Init /\ [][Next]_vars

\* the calculation of one invoice, for every combination of arguments
InitCalc ==
    /\ invoices = << >>
    /\ items = << >>
    /\ customers = << >>
    /\ \/ call \in MoneyRequests /\ templates = << >>
       \/ call \in ExcessRequests /\ templates = << >>
       \/ call \in TaxRequests /\ templates \in TemplateTables
    /\ now = 0
    /\ last = NoCall
    /\ sessions = NoSessions

NextCalc == CreateCall

SpecCalc == InitCalc /\ [][NextCalc]_vars

\* the numbering of invoices created one after the other, from an empty
\* table and from one whose numbers have used up the padded width
InitNumbered ==
    /\ \E s \in {EmptyStore, StoreNumbered(LastPadded)} :
           /\ invoices = s.invoices
           /\ items = s.items
           /\ customers = s.customers
    /\ templates = << >>
    /\ now = 0
    /\ call = PlainArgs
    /\ last = NoCall
    /\ sessions = NoSessions

NextNumbered == CreateNumbered

SpecNumbered == InitNumbered /\ [][NextNumbered]_vars

\* requests to the creation endpoint, one after the other, on a store that
\* holds an invoice already
InitApi ==
    /\ invoices = StoreWith(TRUE, None).invoices
    /\ items = StoreWith(TRUE, None).items
    /\ customers = StoreWith(TRUE, None).customers
    /\ templates = << >>
    /\ now = 0
    /\ call = PlainArgs
    /\ last = NoCall
    /\ sessions = NoSessions

NextApi == Post

SpecApi == InitApi /\ [][NextApi]_vars

\* concurrent creations, each in its own session
InitSessions ==
    /\ invoices = << >>
    /\ items = << >>
    /\ customers = << >>
    /\ templates = << >>
    /\ now = 0
    /\ call = PlainArgs
    /\ last = NoCall
    /\ sessions = NoSessions

NextSessions == Fetch \/ Customer \/ Number \/ Flush \/ Items \/ Commits

SpecSessions == InitSessions /\ [][NextSessions]_vars

\* concurrent views of the invoices of a store, each in its own session
InitViews ==
    /\ invoices = StoreWith(TRUE, None).invoices
    /\ items = StoreWith(TRUE, None).items
    /\ customers = StoreWith(TRUE, None).customers
    /\ templates = << >>
    /\ now = 0
    /\ call = PlainArgs
    /\ last = NoCall
    /\ sessions = NoViewers

NextViews == Resolve \/ Recorded

SpecViews == InitViews /\ [][NextViews]_vars

\* creations one after the other for customers known and new
InitCustomers ==
    /\ invoices = << >>
    /\ items = << >>
    /\ customers = << >>
    /\ templates = << >>
    /\ now = 0
    /\ call = PlainArgs
    /\ last = NoCall
    /\ sessions = NoSessions

NextCustomers == CreateForCustomer

SpecCustomers == InitCustomers /\ [][NextCustomers]_vars

-----------------------------------------------------------------------------
(* Properties *)

\* the sum of the total prices of the first k rows of invoice_new_item that
\* belong to invoice bubble_id
RECURSIVE LineTotal(_, _)
LineTotal(bubble_id, k) ==
    IF k = 0 THEN 0
    ELSE LineTotal(bubble_id, k - 1)
            + (IF items[k].invoice_id = bubble_id THEN items[k].total_price ELSE 0)

HasLine(bubble_id, item_type) ==
    \E k \in 1..Len(items) :
        items[k].invoice_id = bubble_id /\ items[k].item_type = item_type

PriceOf(args) ==
    LET rows == {k \in 1..Len(Packages) : Packages[k].bubble_id = args.package_id}
    IN  IF \E k \in rows : Packages[k].price # None
        THEN Packages[CHOOSE k \in rows : Packages[k].price # None].price[1]
        ELSE 0

\* the amount the voucher code of a request resolves to: of the active
\* voucher of that code, the flat amount, or else the percentage of the price
ResolvedVoucher(args) ==
    LET rows == {k \in 1..Len(Vouchers) :
                    /\ Some(Vouchers[k].voucher_code) = args.voucher_code
                    /\ Vouchers[k].active}
    IN  IF rows = {} THEN 0
        ELSE LET v == Vouchers[CHOOSE k \in rows : TRUE]
             IN  IF v.discount_amount # None /\ v.discount_amount # Some(0)
                 THEN v.discount_amount[1]
                 ELSE IF v.discount_percent # None
                 THEN (PriceOf(args) \div 100) * v.discount_percent[1]
                 ELSE 0

\* the fee of a request: its amount when amount and description are given
FeeOf(args) ==
    IF /\ args.epp_fee_amount # None
       /\ args.epp_fee_description \notin {None, Some("")}
    THEN args.epp_fee_amount[1]
    ELSE 0

\* C2: for fixed discount f >= 0, percent discount p in 0..100, package
\* price P, markup m >= 0, resolved voucher amount v and fee e, the invoice
\* created has subtotal = (P + m) - f - P * p / 100 - v + e: the percentage
\* is taken on the package price without the markup
C2_SubtotalFormula ==
    \A i \in 1..Len(invoices) :
        (/\ call.discount_fixed >= 0
         /\ call.discount_percent \in 0..100
         /\ call.agent_markup >= 0)
        => invoices[i].subtotal =
               (PriceOf(call) + call.agent_markup)
               - call.discount_fixed
               - (PriceOf(call) \div 100) * call.discount_percent
               - ResolvedVoucher(call)
               + FeeOf(call)

\* an invoice created with markup, both discounts, a voucher and a fee
C2_Witness ==
    /\ Len(invoices) > 0
    /\ call.agent_markup > 0
    /\ call.discount_fixed > 0
    /\ call.discount_percent > 0
    /\ ResolvedVoucher(call) > 0
    /\ FeeOf(call) > 0

\* the template rows a request resolves to: those of the template_id passed
\* in, or else the default active ones
ResolvedTemplates(args) ==
    {t \in {templates[k] : k \in 1..Len(templates)} :
        IF args.template_id \notin {None, Some("")}
        THEN t.bubble_id = args.template_id[1]
        ELSE t.is_default /\ t.active}

TemplateForbidsTax(args) == \E t \in ResolvedTemplates(args) : ~t.apply_sst

\* C3: the tax of a created invoice is 0 unless apply_sst is true and the
\* resolved template permits tax; a resolved template with apply_sst = false
\* forces sst_rate = 0 and total = subtotal even when tax was asked for
C3_TaxOnlyWhenAllowed ==
    \A i \in 1..Len(invoices) :
        LET inv == invoices[i]
        IN  /\ inv.sst_amount # 0 => call.apply_sst /\ ~TemplateForbidsTax(call)
            /\ TemplateForbidsTax(call) \/ ~call.apply_sst
                   => /\ inv.sst_rate = 0
                      /\ inv.sst_amount = 0
                      /\ inv.total_amount = inv.subtotal

\* tax was asked for, no template was passed, the default template forbids
\* tax, and the invoice created has a positive subtotal
C3_Witness ==
    /\ call.apply_sst
    /\ call.template_id = None
    /\ TemplateForbidsTax(call)
    /\ \E i \in 1..Len(invoices) : invoices[i].subtotal > 0


\* the highest numeric suffix among the invoice numbers of a table, 0 for none
HighestSuffix(invs) ==
    IF invs = << >> THEN 0
    ELSE LET nums == {DigitsToNum(invs[k].invoice_number.digits) : k \in 1..Len(invs)}
         IN  CHOOSE n \in nums : \A m \in nums : m <= n

TokenInUse(token) ==
    \E k \in 1..Len(invoices) : invoices[k].share_token = Some(token)

\* C4: executed one after the other, every create_on_the_fly call (for an
\* existing package, with a share token not in use) creates an invoice whose
\* numeric suffix is 1 + the highest suffix among the existing invoices, 1
\* when there are none, so that the suffixes increase strictly in creation
\* order and no number is given twice
C4_NextNumberIsHighestPlusOne ==
    [][\A args \in NumberRequests, token \in NumberTokens :
          CreateOnTheFly(args, token) /\ ~TokenInUse(token)
              => /\ last'.raised = ""
                 /\ Len(invoices') = Len(invoices) + 1
                 /\ DigitsToNum(invoices'[Len(invoices')].invoice_number.digits)
                        = HighestSuffix(invoices) + 1]_vars

\* the number of decimal digits of n >= 0
RECURSIVE DecimalLength(_)
DecimalLength(n) == IF n < 10 THEN 1 ELSE 1 + DecimalLength(n \div 10)

\* C5: every invoice number the generator produces is the prefix and N in
\* decimal, padded on the left with zeros to INVOICE_NUMBER_LENGTH digits
\* (a longer N is written in full)
C5_NumberFormat ==
    \A i \in 1..Len(invoices) :
        LET number == invoices[i].invoice_number
            n == DigitsToNum(number.digits)
        IN  /\ number.prefix = INVOICE_NUMBER_PREFIX
            /\ \A k \in 1..Len(number.digits) : number.digits[k] \in 0..9
            /\ n >= 1
            /\ Len(number.digits) =
                   IF DecimalLength(n) > INVOICE_NUMBER_LENGTH
                   THEN DecimalLength(n) ELSE INVOICE_NUMBER_LENGTH

\* the generator has produced a padded number and one longer than the width
C5_Witness ==
    /\ last.op = "create_on_the_fly"
    /\ last.raised = ""
    /\ \E i \in 1..Len(invoices) :
           /\ invoices[i].bubble_id = last.ret[1]
           /\ Len(invoices[i].invoice_number.digits) > INVOICE_NUMBER_LENGTH


\* the rows of invoice_new that carry a share token
RowsOfToken(share_token) ==
    {k \in 1..Len(invoices) : invoices[k].share_token = Some(share_token)}

\* C6, as amended: get_by_share_token(t) returns an invoice if and only if
\* an invoice with share_token = t exists, its share_enabled is true and its
\* share_expires_at is unset or not earlier than the current time (the link
\* still resolves at the instant of its expiry); otherwise it returns None
C6_ResolvesIffShareable ==
    \A t \in PresentedTokens :
        LET live == {k \in RowsOfToken(t) :
                        /\ invoices[k].share_enabled
                        /\ \/ invoices[k].share_expires_at = None
                           \/ invoices[k].share_expires_at[1] >= now}
        IN  IF live = {}
            THEN GetByShareToken(invoices, now, t) = None
            ELSE GetByShareToken(invoices, now, t) \in {Some(invoices[k]) : k \in live}

\* C6, as claimed: ... and its share_expires_at is unset or in the future
\* relative to the current time
C6_ResolvesIffExpiryInFuture ==
    \A t \in PresentedTokens :
        LET live == {k \in RowsOfToken(t) :
                        /\ invoices[k].share_enabled
                        /\ \/ invoices[k].share_expires_at = None
                           \/ invoices[k].share_expires_at[1] > now}
        IN  IF live = {}
            THEN GetByShareToken(invoices, now, t) = None
            ELSE GetByShareToken(invoices, now, t) \in {Some(invoices[k]) : k \in live}

\* a view request has just resolved a token at the instant of its expiry
C6_Witness ==
    /\ last.op = "view_shared_invoice"
    /\ last.status = 200
    /\ \E k \in RowsOfToken(last.args) :
           invoices[k].share_expires_at = Some(now)

Nonexistent(share_token) == RowsOfToken(share_token) = {}

SharingDisabled(share_token) ==
    \E k \in RowsOfToken(share_token) : ~invoices[k].share_enabled

Expired(share_token) ==
    \E k \in RowsOfToken(share_token) :
        /\ invoices[k].share_expires_at # None
        /\ invoices[k].share_expires_at[1] < now

IsNotFound(response) ==
    /\ response.status = 404
    /\ response.detail = "Invoice not found or link expired"

\* C7: a request to /view/{t} or /view/{t}/pdf whose token belongs to an
\* expired invoice, to an invoice with sharing disabled or to no invoice is
\* answered by the same 404 with the same detail in the three cases, and
\* leaves the store unchanged: no view is recorded
C7_UnresolvableTokensLookAlike ==
    [][\A t \in PresentedTokens :
          Nonexistent(t) \/ SharingDisabled(t) \/ Expired(t)
              => /\ last'.op = "view_shared_invoice" /\ ViewSharedInvoice(t)
                     => IsNotFound(last') /\ UNCHANGED store
                 /\ \A pdf_ok \in BOOLEAN :
                        last'.op = "download_invoice_pdf"
                                /\ DownloadInvoicePdf(t, pdf_ok)
                            => IsNotFound(last') /\ UNCHANGED store]_vars

\* a view of an expired link was answered 404 while the store also holds an
\* invoice with sharing disabled and the guessed token belongs to no invoice
C7_Witness ==
    /\ last.op = "view_shared_invoice"
    /\ IsNotFound(last)
    /\ Expired(last.args)
    /\ ~SharingDisabled(last.args)
    /\ \E t \in PresentedTokens : SharingDisabled(t)
    /\ \E t \in PresentedTokens : Nonexistent(t)

Exists(bubble_id) ==
    \E k \in 1..Len(invoices) : invoices[k].bubble_id = bubble_id

\* C8: a record_view call on an existing invoice adds exactly 1 to that
\* invoice's share_access_count and sets its viewed_at to the current time,
\* and no step of the engine makes a counter smaller
C8_ViewCountsUp ==
    [][/\ \A bubble_id \in 1..(MaxInvoices + 1) :
              (last'.op = "record_view" /\ RecordView(bubble_id)
                    /\ Exists(bubble_id))
                  => \A k \in 1..Len(invoices) :
                         IF invoices[k].bubble_id = bubble_id
                         THEN /\ invoices'[k].share_access_count
                                     = invoices[k].share_access_count + 1
                              /\ invoices'[k].viewed_at = Some(now)
                         ELSE invoices'[k] = invoices[k]
       /\ \A k \in 1..Len(invoices) :
              /\ k <= Len(invoices')
              /\ invoices'[k].share_access_count
                     >= invoices[k].share_access_count]_vars

\* record_view has just been called a second time on an invoice, later on
C8_Witness ==
    /\ last.op = "record_view"
    /\ now > 0
    /\ \E k \in 1..Len(invoices) :
           /\ invoices[k].bubble_id = last.args
           /\ invoices[k].share_access_count = 2
           /\ invoices[k].viewed_at = Some(now)

\* C9: record_view with an identifier that matches no invoice returns
\* normally and leaves every invoice, line item and customer unchanged
C9_ViewOfNothingIsNoOp ==
    [][\A bubble_id \in 1..(MaxInvoices + 1) :
          (last'.op = "record_view" /\ RecordView(bubble_id)
                /\ ~Exists(bubble_id))
              => /\ last'.raised = ""
                 /\ UNCHANGED store]_vars

\* record_view has just been called with an unknown id on a store that
\* holds an invoice
C9_Witness ==
    /\ last.op = "record_view"
    /\ last.raised = ""
    /\ ~Exists(last.args)
    /\ Len(invoices) > 0

UnknownPackage(args) ==
    \A k \in 1..Len(Packages) : Packages[k].bubble_id # args.package_id

\* C10: create_on_the_fly with a package_id that matches no package raises
\* the not-found error (ValueError) and writes nothing: no invoice, line item
\* or customer row is added, also when a new customer name was supplied
C10_UnknownPackageWritesNothing ==
    [][\A args \in Requests, token \in Tokens :
          (last'.op = "create_on_the_fly" /\ CreateOnTheFly(args, token)
                /\ UnknownPackage(args))
              => /\ last'.raised = "ValueError"
                 /\ last'.ret = None
                 /\ UNCHANGED store]_vars

\* a creation for an unknown package and a customer name not in the store
\* has just failed
C10_Witness ==
    /\ last.op = "create_on_the_fly"
    /\ last.raised = "ValueError"
    /\ UnknownPackage(last.args)
    /\ last.args.customer_name # None
    /\ \A k \in 1..Len(customers) : Some(customers[k].name) # last.args.customer_name
    /\ Len(invoices) > 0


\* C11: when the endpoint has called the engine, it answers 400 exactly when
\* the package was not found, 200 exactly when the invoice was created, and
\* 500 for every other fault of the engine
C11_StatusFollowsEngineOutcome ==
    [][\A request_data \in Bodies, token \in Tokens :
          (/\ last'.op = "create_invoice_on_the_fly"
           /\ last'.args = request_data
           /\ CreateInvoiceOnTheFly(request_data, token)
           /\ last'.passed # None)
              => /\ last'.status \in {200, 400, 500}
                 /\ last'.status = 400 <=> UnknownPackage(request_data)
                 /\ last'.status = 200 <=> Len(invoices') = Len(invoices) + 1
                 /\ last'.status = 500
                        <=> /\ ~UnknownPackage(request_data)
                            /\ UNCHANGED store
                            /\ last'.raised \notin {"", "ValueError"}]_vars

\* the engine has just failed on something else than the package, and the
\* endpoint answered 500
C11_Witness ==
    /\ last.op = "create_invoice_on_the_fly"
    /\ last.fault = "engine"
    /\ last.raised = "IntegrityError"
    /\ ~UnknownPackage(last.args)
    /\ last.status = 500


\* a discount_given with a part that writes no number
Malformed(discount_given) ==
    \E part \in DOMAIN Split(ReplaceChar(Strip(discount_given), "+", <<" ">>)) :
        LET text == Split(ReplaceChar(Strip(discount_given), "+", <<" ">>))[part]
        IN  ~IsDecimal(ReplaceChar(ReplaceChar(RemoveRM(text), ",", << >>),
                                   "%", << >>))

\* C12: a creation request whose discount_given has a part that is not a
\* number is answered with a client error (4xx); it is neither accepted, as
\* if the discount were zero, nor left to fail as an unhandled fault
C12_MalformedDiscountIsRejected ==
    (/\ last.op = "create_invoice_on_the_fly"
     /\ last.args.discount_given # None
     /\ Malformed(last.args.discount_given[1]))
        => /\ last.status \in 400..499
           /\ last.fault # "unhandled"


\* the committed rows are whole: every invoice has exactly the items its
\* creation call builds, every item belongs to an invoice, and every customer
\* is the customer of an invoice
RowsAreWhole ==
    /\ \A k \in 1..Len(invoices) :
           \E args \in SessionRequests :
               /\ FindPackage(args.package_id) # None
               /\ invoices[k].package_id = args.package_id
               /\ invoices[k].discount_percent = args.discount_percent
               /\ invoices[k].voucher_code = args.voucher_code
               /\ ItemsOf(items, invoices[k].bubble_id)
                      = BuildItems(args, FindPackage(args.package_id)[1],
                                   VoucherAmount(args, FindPackage(args.package_id)[1]),
                                   invoices[k].bubble_id)
    /\ \A i \in 1..Len(items) :
           \E k \in 1..Len(invoices) : invoices[k].bubble_id = items[i].invoice_id
    /\ \A j \in 1..Len(customers) :
           \E k \in 1..Len(invoices) :
               invoices[k].customer_id = Some(customers[j].id)

\* a step changes the committed rows only when a call commits, and a call
\* that ends by raising leaves them as they were
OnlyCommitWrites ==
    /\ store' # store
           => \E c \in Callers :
                  /\ sessions[c].pc = "commit"
                  /\ sessions'[c].pc = "idle"
                  /\ last'.raised = ""
                  /\ Len(invoices') = Len(invoices) + 1
                  /\ Len(items') = Len(items) + Len(sessions[c].items)
    /\ \A c \in Callers :
           (sessions[c].pc # "idle" /\ sessions'[c].pc = "idle"
                /\ last'.raised # "")
               => UNCHANGED store

HasReadNumber(c) == sessions[c].pc = "flush"

\* C14: two concurrent create_on_the_fly calls race: a call that reads its
\* number while another call has read the number of the same committed
\* table, and has not written yet, generates that same number again
C14_ConcurrentCallsReadTheSameNumber ==
    [][\A c \in Callers, other \in Callers :
          (/\ c # other
           /\ HasReadNumber(other)
           /\ sessions[other].invoice_number = Some(GenerateInvoiceNumber(invoices))
           /\ sessions[c].pc = "number"
           /\ HasReadNumber(c)')
              => sessions'[c].invoice_number = sessions[other].invoice_number]_vars

\* both calls have read the same highest number before either has written:
\* they hold the same invoice number, and a committed invoice precedes them
C14_Witness ==
    /\ \A c \in Callers : HasReadNumber(c)
    /\ sessions["s1"].invoice_number = sessions["s2"].invoice_number
    /\ Len(invoices) = 1
    /\ sessions["s1"].invoice_number = Some(FormatInvoiceNumber(2))


\* an invoice as create_on_the_fly shares it: enabled, with an expiry
SharedAsCreated(invoice) ==
    invoice.share_enabled /\ invoice.share_expires_at # None

\* C15: every invoice create_on_the_fly creates has share_enabled = true and
\* share_expires_at = creation time + SHARE_LINK_EXPIRY_DAYS, so that
\* get_by_share_token with its token returns that invoice at every time from
\* its creation up to the expiry and None at every later time
C15_LinkLivesUntilExpiry ==
    /\ [][\A args \in Requests, token \in Tokens :
             (/\ last'.op = "create_on_the_fly"
              /\ CreateOnTheFly(args, token)
              /\ last'.raised = "")
                 => LET invoice == invoices'[Len(invoices')]
                    IN  /\ invoice.share_enabled
                        /\ invoice.share_token = Some(token)
                        /\ invoice.share_expires_at
                               = Some(now + SHARE_LINK_EXPIRY_DAYS)
                        /\ GetByShareToken(invoices', now, token) = Some(invoice)]_vars
    /\ [](\A k \in 1..Len(invoices) :
             SharedAsCreated(invoices[k])
                 => GetByShareToken(invoices, now, invoices[k].share_token[1])
                        = IF now <= invoices[k].share_expires_at[1]
                          THEN Some(invoices[k])
                          ELSE None)

\* the link of an invoice created at day 0 has been asked for after its
\* expiry and was not found, while the link of a younger invoice is alive
C15_Witness ==
    /\ last.op = "view_shared_invoice"
    /\ last.status = 404
    /\ \E k \in 1..Len(invoices) :
           /\ SharedAsCreated(invoices[k])
           /\ invoices[k].share_token = Some(last.args)
           /\ invoices[k].share_expires_at = Some(SHARE_LINK_EXPIRY_DAYS)
           /\ now > SHARE_LINK_EXPIRY_DAYS
    /\ \E k \in 1..Len(invoices) :
           /\ SharedAsCreated(invoices[k])
           /\ invoices[k].share_expires_at[1] > now
           /\ GetByShareToken(invoices, now, invoices[k].share_token[1])
                  = Some(invoices[k])


\* the discount or the voucher of a call is larger than the price of the
\* package plus the markup
ExceedsPrice(args) ==
    LET package == FindPackage(args.package_id)
    IN  /\ package # None
        /\ ~VoucherRaises(args, package[1])
        /\ \/ args.discount_fixed > UnitPrice(args, package[1])
           \/ VoucherAmount(args, package[1]) > UnitPrice(args, package[1])

\* the invoice the last call returned
Returned == GetById(invoices, last.ret[1])[1]

C17_NamelessCallUsesPlaceholder ==
    [][\A args \in NumberRequests, token \in NumberTokens :
          (/\ last'.op = "create_on_the_fly"
           /\ last'.args = args
           /\ CreateOnTheFly(args, token)
           /\ ~TruthyStr(args.customer_name)
           /\ ~FlushRaises(invoices,
                           NewInvoice(invoices, customers, templates, now, args,
                                      token, FindPackage(args.package_id)[1])))
              => /\ last'.raised = ""
                 /\ Len(invoices') = Len(invoices) + 1
                 /\ invoices'[Len(invoices')].customer_name_snapshot
                        = "Sample Quotation"
                 /\ invoices'[Len(invoices')].customer_id = None
                 /\ invoices'[Len(invoices')].customer_phone_snapshot
                        = args.customer_phone
                 /\ customers' = customers]_vars

\* an invoice was just created from a call with an empty name and a phone
\* number, after one for a named customer
C17_Witness ==
    /\ last.op = "create_on_the_fly"
    /\ last.raised = ""
    /\ last.args.customer_name = Some("")
    /\ last.args.customer_phone # None
    /\ Len(customers) = 1
    /\ GetById(invoices, last.ret[1])[1].customer_name_snapshot = "Sample Quotation"
    /\ GetById(invoices, last.ret[1])[1].customer_id = None


\* C18: every discount value that reaches create_on_the_fly through the
\* endpoint is within the declared ranges: fixed discount >= 0, percent
\* discount within 0..100 and markup >= 0, whether it was given in the fields
\* discount_fixed and discount_percent or in the string discount_given
C18_EngineArgumentsInRange ==
    (last.op = "create_invoice_on_the_fly" /\ last.passed # None)
        => /\ last.passed[1].discount_fixed >= 0
           /\ last.passed[1].discount_percent \in 0..100
           /\ last.passed[1].agent_markup >= 0


\* the calculation has created an invoice with tax asked for and no template
\* against it
TaxedCreation ==
    /\ last.op = "create_on_the_fly"
    /\ last.raised = ""
    /\ last.args.apply_sst
    /\ ~TemplateForbidsTax(last.args)

\* C19, as amended: whenever tax is enabled and the resolved template
\* permits it, the tax amount equals subtotal * tax_rate / 100 when the
\* subtotal is positive and is zero when the subtotal is zero or negative,
\* with tax_rate the configured default rate
C19_TaxOnPositiveSubtotalOnly ==
    TaxedCreation
        => /\ Returned.sst_rate = DEFAULT_SST_RATE
           /\ Returned.sst_amount
                  = IF Returned.subtotal > 0
                    THEN Percent(Returned.subtotal, DEFAULT_SST_RATE)
                    ELSE 0

\* C19, as claimed: ... the tax amount equals subtotal * tax_rate / 100 for
\* every subtotal the creation can produce (positive, zero or negative)
C19_TaxOnEverySubtotal ==
    TaxedCreation
        => /\ Returned.sst_rate = DEFAULT_SST_RATE
           /\ Returned.sst_amount = Percent(Returned.subtotal, DEFAULT_SST_RATE)

\* a taxed invoice with a negative subtotal was created, and carries no tax
C19_Witness ==
    /\ TaxedCreation
    /\ Returned.subtotal < 0
    /\ Returned.sst_amount = 0
    /\ Returned.total_amount = Returned.subtotal


\* the sort orders of the items of one type
SortOrders(its, item_type) ==
    {its[k].sort_order : k \in {j \in 1..Len(its) : its[j].item_type = item_type}}

\* C20: in every created invoice the sort orders respect the display
\* sequence package < every discount line < voucher line < fee line: the
\* package item is at 0, discount items start at 100, the voucher item sits
\* strictly after all discount items and the fee item is at 200, also when a
\* fixed and a percent discount come together with a voucher
C20_SortOrdersFollowDisplaySequence ==
    \A i \in 1..Len(invoices) :
        LET its == ItemsOf(items, invoices[i].bubble_id)
        IN  /\ SortOrders(its, "package") = {0}
            /\ \A d \in SortOrders(its, "discount") : d >= 100
            /\ SortOrders(its, "discount") # {} => 100 \in SortOrders(its, "discount")
            /\ \A d \in SortOrders(its, "discount"), v \in SortOrders(its, "voucher") :
                   d < v
            /\ \A v \in SortOrders(its, "voucher"), f \in SortOrders(its, "epp_fee") :
                   v < f
            /\ SortOrders(its, "epp_fee") \subseteq {200}


\* the total prices of the lines of one type of an invoice, in the order
\* they were added
TotalsOfType(bubble_id, item_type) ==
    TotalPrices(SelectSeq(ItemsOf(items, bubble_id),
                          LAMBDA it : it.item_type = item_type))

\* C21: the discount lines of a created invoice are one line of total
\* -fixed when the fixed discount is > 0, followed by one line of total
\* -(package price * percent / 100) when the percent discount is > 0: both
\* given make two separate lines, never one merged line, and a discount that
\* is 0 makes no line
C21_DiscountsAreSeparateLines ==
    \A i \in 1..Len(invoices) :
        TotalsOfType(invoices[i].bubble_id, "discount")
            = (IF call.discount_fixed > 0 THEN <<-call.discount_fixed>> ELSE << >>)
              \o (IF call.discount_percent > 0
                  THEN <<-((PriceOf(call) \div 100) * call.discount_percent)>>
                  ELSE << >>)

\* an invoice created with both discounts, and so with two discount lines
C21_Witness ==
    /\ call.discount_fixed > 0
    /\ call.discount_percent > 0
    /\ \E i \in 1..Len(invoices) :
           Len(TotalsOfType(invoices[i].bubble_id, "discount")) = 2


\* the active rows of the voucher table with the code of a request
ActiveVouchers(args) ==
    {Vouchers[k] : k \in {j \in 1..Len(Vouchers) :
                            /\ Some(Vouchers[j].voucher_code) = args.voucher_code
                            /\ Vouchers[j].active}}

HasFlatAmount(voucher) == voucher.discount_amount \notin {None, Some(0)}

\* C22: when the voucher code resolves to an active voucher with a flat
\* amount, the voucher amount applied is the flat amount, also when the
\* voucher has a percentage as well; the percentage of the package price is
\* applied only when the flat amount is unset or zero
C22_FlatAmountTakesPrecedence ==
    \A i \in 1..Len(invoices) : \A voucher \in ActiveVouchers(call) :
        /\ HasFlatAmount(voucher)
               => /\ invoices[i].voucher_amount = voucher.discount_amount[1]
                  /\ TotalsOfType(invoices[i].bubble_id, "voucher")
                         = <<-voucher.discount_amount[1]>>
        /\ (~HasFlatAmount(voucher) /\ voucher.discount_percent # None)
               => invoices[i].voucher_amount
                      = (PriceOf(call) \div 100) * voucher.discount_percent[1]

\* an invoice created with a voucher that has both a flat amount of 100 and
\* a percentage worth 50 on the package: 100 was applied
C22_Witness ==
    \E i \in 1..Len(invoices) : \E voucher \in ActiveVouchers(call) :
        /\ HasFlatAmount(voucher)
        /\ voucher.discount_percent # None
        /\ (PriceOf(call) \div 100) * voucher.discount_percent[1]
               # voucher.discount_amount[1]
        /\ invoices[i].voucher_amount = voucher.discount_amount[1]


\* a voucher code was supplied and no active voucher has it
UnmatchedVoucherCode(args) ==
    /\ args.voucher_code \notin {None, Some("")}
    /\ ActiveVouchers(args) = {}

\* C23: every invoice has at most one voucher line, and has one only if the
\* voucher code supplied matches an active voucher; a call with an unknown
\* or inactive voucher code fails only as it would without the code (unknown
\* package, percent discount on a package without a price, collision of
\* token or number), and the invoice it creates has no voucher line and
\* voucher_amount = 0
C23_AtMostOneVoucherLine ==
    /\ \A i \in 1..Len(invoices) :
           LET lines == TotalsOfType(invoices[i].bubble_id, "voucher")
           IN  /\ Len(lines) <= 1
               /\ Len(lines) = 1 => ActiveVouchers(call) # {}
               /\ UnmatchedVoucherCode(call)
                      => lines = << >> /\ invoices[i].voucher_amount = 0
    /\ (/\ last.op = "create_on_the_fly"
        /\ UnmatchedVoucherCode(last.args)
        /\ \E k \in 1..Len(Packages) :
               /\ Packages[k].bubble_id = last.args.package_id
               /\ Packages[k].price # None \/ last.args.discount_percent = 0
        /\ last.raised # "IntegrityError")
           => /\ last.raised = ""
              /\ last.ret # None
              /\ GetById(invoices, last.ret[1]) # None

\* a call with the code of an inactive voucher created an invoice without a
\* voucher line
C23_Witness ==
    /\ last.op = "create_on_the_fly"
    /\ last.raised = ""
    /\ UnmatchedVoucherCode(last.args)
    /\ \E k \in 1..Len(Vouchers) :
           Some(Vouchers[k].voucher_code) = last.args.voucher_code
    /\ TotalsOfType(last.ret[1], "voucher") = << >>
    /\ GetById(invoices, last.ret[1])[1].voucher_amount = 0


\* the total prices of the lines of an invoice that are not fee lines
TotalsButFee(bubble_id) ==
    TotalPrices(SelectSeq(ItemsOf(items, bubble_id),
                          LAMBDA it : it.item_type # "epp_fee"))

\* a created invoice with one fee line of the amount asked for, or with no
\* fee line and a subtotal made of the other lines only
FeeLineAsGiven(invoice, given, amount) ==
    LET lines == TotalsOfType(invoice.bubble_id, "epp_fee")
    IN  IF given
        THEN lines = <<amount>> /\ amount > 0
        ELSE /\ lines = << >>
             /\ invoice.subtotal = SumSeq(TotalsButFee(invoice.bubble_id))

\* C24, as amended: an epp_fee line is added if and only if a fee amount
\* greater than zero and a non-empty fee description are both given; when
\* added, its total is positive and equal to the fee amount, and otherwise
\* (an amount of zero included) no fee line exists and the subtotal is
\* unaffected
C24_FeeLineIffPositiveAmountAndDescription ==
    \A i \in 1..Len(invoices) :
        FeeLineAsGiven(invoices[i],
                       /\ call.epp_fee_amount # None
                       /\ call.epp_fee_amount[1] > 0
                       /\ call.epp_fee_description \notin {None, Some("")},
                       IF call.epp_fee_amount # None
                       THEN call.epp_fee_amount[1] ELSE 0)

\* C24, as claimed: an epp_fee line is added if and only if a fee amount and
\* a fee description are both given; when added, its total is positive and
\* equal to the fee amount, and when either is missing no fee line exists
\* and the subtotal is unaffected
C24_FeeLineIffBothGiven ==
    \A i \in 1..Len(invoices) :
        FeeLineAsGiven(invoices[i],
                       /\ call.epp_fee_amount # None
                       /\ call.epp_fee_description # None,
                       IF call.epp_fee_amount # None
                       THEN call.epp_fee_amount[1] ELSE 0)

\* an invoice created with a fee line, its subtotal raised by the fee
C24_Witness ==
    \E i \in 1..Len(invoices) :
        /\ call.epp_fee_amount # None
        /\ call.epp_fee_description # None
        /\ TotalsOfType(invoices[i].bubble_id, "epp_fee") = <<call.epp_fee_amount[1]>>
        /\ invoices[i].subtotal
               = SumSeq(TotalsButFee(invoices[i].bubble_id)) + call.epp_fee_amount[1]


\* the package lines of an invoice
PackageLines(bubble_id) ==
    SelectSeq(ItemsOf(items, bubble_id), LAMBDA it : it.item_type = "package")

Snapshot(invoice) ==
    <<invoice.customer_name_snapshot, invoice.customer_phone_snapshot,
      invoice.customer_address_snapshot, invoice.customer_email_snapshot>>

\* C26: once an invoice is created its customer snapshot fields (name,
\* phone, address, email) never change: every step of the engine
\* (record_view, the public routes with get_by_share_token and get_by_id,
\* the creation of other invoices, for the same customer too) keeps every
\* invoice of the table with its snapshot
C26_SnapshotNeverChanges ==
    [][\A i \in 1..Len(invoices) :
          \E j \in 1..Len(invoices') :
              /\ invoices'[j].bubble_id = invoices[i].bubble_id
              /\ Snapshot(invoices'[j]) = Snapshot(invoices[i])]_vars

\* an invoice of a customer has been viewed and another invoice was created
\* for the same customer after it
C26_Witness ==
    \E i, j \in 1..Len(invoices) :
        /\ i < j
        /\ invoices[i].customer_id # None
        /\ invoices[i].customer_phone_snapshot # None
        /\ invoices[j].customer_id = invoices[i].customer_id
        /\ invoices[i].share_access_count > 0


\* no two rows of invoice_new carry the same share token
TokensAreUnique ==
    \A i, j \in 1..Len(invoices) :
        (/\ i # j
         /\ invoices[i].share_token # None)
            => invoices[i].share_token # invoices[j].share_token

\* a token that resolves to an invoice resolves to the same invoice after
\* the step
TokensStayWithTheirInvoice ==
    \A token \in Tokens :
        FindByToken(invoices, token) # None
            => /\ FindByToken(invoices', token) # None
               /\ FindByToken(invoices', token)[1].bubble_id
                      = FindByToken(invoices, token)[1].bubble_id

\* C27: share tokens are unique: in every reachable state of the store no
\* two distinct invoices have the same share_token, so a token resolves to
\* at most one invoice, and always to the invoice it was issued for
C27_ShareTokensAreUnique ==
    []TokensAreUnique /\ [][TokensStayWithTheirInvoice]_vars

\* a creation that drew a token already in use has been refused, and every
\* token still resolves to one invoice at most
C27_Witness ==
    /\ Len(invoices) >= 1
    /\ last.op = "create_on_the_fly"
    /\ last.raised = "IntegrityError"
    /\ \A token \in Tokens : Cardinality(RowsOfToken(token)) <= 1


\* C28: for any interleaving of k concurrent successful view requests on the
\* same invoice (each doing get_by_id, share_access_count += 1, commit),
\* share_access_count ends exactly k higher than it started: once no request
\* is under way, the counter of the invoice, which started at 0, equals the
\* number of requests answered 200
C28_NoViewIsLost ==
    (\A c \in Callers : sessions[c].pc = "idle")
        => \A i \in 1..Len(invoices) : invoices[i].share_access_count = Served


\* the step recorded one view of the invoice the token resolves to, and
\* nothing else
RecordedOnce(share_token) ==
    LET invoice == GetByShareToken(invoices, now, share_token)
    IN  /\ invoice # None
        /\ Len(invoices') = Len(invoices)
        /\ \A k \in 1..Len(invoices) :
               IF invoices[k].bubble_id = invoice[1].bubble_id
               THEN /\ invoices'[k].share_access_count
                           = invoices[k].share_access_count + 1
                    /\ invoices'[k].viewed_at = Some(now)
                    /\ invoices'[k] = [invoices[k] EXCEPT
                           !.share_access_count = invoices'[k].share_access_count,
                           !.viewed_at = invoices'[k].viewed_at]
               ELSE invoices'[k] = invoices[k]
        /\ UNCHANGED <<items, customers>>

\* C29: a view is recorded exactly once per successful GET /view/{token}
\* request, and only after the token has been resolved to a valid invoice;
\* a request that ends in 404 and any GET /view/{token}/pdf request,
\* successful or not, leave share_access_count and viewed_at unchanged
C29_ViewRecordedOncePerSuccessfulView ==
    [][\A t \in PresentedTokens :
          /\ (last'.op = "view_shared_invoice" /\ ViewSharedInvoice(t))
                 => IF last'.status = 200
                    THEN RecordedOnce(t)
                    ELSE /\ last'.status = 404
                         /\ GetByShareToken(invoices, now, t) = None
                         /\ UNCHANGED store
          /\ \A pdf_ok \in BOOLEAN :
                 (last'.op = "download_invoice_pdf" /\ DownloadInvoicePdf(t, pdf_ok))
                     => UNCHANGED store]_vars

\* a PDF of an invoice has been downloaded after one view of it: the view
\* was counted once and the download was not counted
C29_Witness ==
    /\ last.op = "download_invoice_pdf"
    /\ last.status = 200
    /\ \E k \in 1..Len(invoices) :
           /\ invoices[k].bubble_id = last.bubble_id
           /\ invoices[k].share_access_count = 1
           /\ invoices[k].viewed_at # None


\* the rows of customer with a name
CustomersNamed(custs, name) ==
    {k \in 1..Len(custs) : Some(custs[k].name) = name}

\* the invoice a successful creation added
Added == invoices'[Len(invoices')]

\* the creation took the customer from the store: no row added, the
\* snapshots and the link are those of the stored customer
TookStoredCustomer(args) ==
    /\ customers' = customers
    /\ \E k \in CustomersNamed(customers, args.customer_name) :
           /\ Added.customer_id = Some(customers[k].id)
           /\ Added.customer_name_snapshot = customers[k].name
           /\ Added.customer_phone_snapshot = customers[k].phone
           /\ Added.customer_address_snapshot = customers[k].address
           /\ Added.customer_email_snapshot = customers[k].email

\* the creation added one customer row, of the name, phone and address of
\* the request
AddedCustomer(args) ==
    /\ Len(customers') = Len(customers) + 1
    /\ \A k \in 1..Len(customers) : customers'[k] = customers[k]
    /\ customers'[Len(customers')].name = args.customer_name[1]
    /\ customers'[Len(customers')].phone = args.customer_phone
    /\ customers'[Len(customers')].address = args.customer_address
    /\ Added.customer_id = Some(customers'[Len(customers')].id)

OneRowPerName ==
    \A k, m \in 1..Len(customers) : customers[k].name = customers[m].name => k = m

\* C30: when create_on_the_fly is given a customer name that already exists
\* in the store, no customer row is created and the phone, address and
\* email snapshots of the invoice are those of the stored customer (the
\* phone and address of the request are ignored); a customer row is created
\* only when the name is new, so creations one after the other with the same
\* name leave exactly one customer row with that name
C30_KnownCustomerIsReused ==
    /\ []OneRowPerName
    /\ [][\A args \in CustomerRequests, token \in Tokens :
             (/\ last'.op = "create_on_the_fly"
              /\ last'.args = args
              /\ last'.raised = ""
              /\ CreateOnTheFly(args, token))
                 => IF args.customer_name = None
                    THEN customers' = customers
                    ELSE IF CustomersNamed(customers, args.customer_name) # {}
                    THEN TookStoredCustomer(args)
                    ELSE AddedCustomer(args)]_vars

\* a second invoice was created for a stored customer with another phone in
\* the request: one customer row, and the snapshot has the stored phone
C30_Witness ==
    /\ last.op = "create_on_the_fly"
    /\ last.raised = ""
    /\ Len(invoices) = 2
    /\ Len(customers) = 1
    /\ invoices[2].customer_id = Some(customers[1].id)
    /\ Some(customers[1].name) = last.args.customer_name
    /\ last.args.customer_phone # customers[1].phone
    /\ invoices[2].customer_phone_snapshot = customers[1].phone

=============================================================================
